---- MODULE Spec2Model ----
(***************************************************************************)
(* Model of the formula engine's dependency tracker                        *)
(* (src/src/dependency.rs): CellId, DependencyTree and its operations      *)
(* add_formula / add_expression / add_cell / add_cell_if_missing /         *)
(* add_precedent / is_precedent_of / is_dependent_of / get_order.          *)
(*                                                                         *)
(* The graph is petgraph's DiGraphMap<CellId, u8>: an insertion-ordered    *)
(* map of nodes and an insertion-ordered map of directed edges, both keyed *)
(* by the derived Hash/Eq of CellId.  It is kept here as two sequences     *)
(* without duplicates: nodes (insertion order) and edges (<<from, to>>,    *)
(* insertion order).                                                       *)
(***************************************************************************)
EXTENDS Integers, Sequences, FiniteSets, TLC

VARIABLES nodes, edges, offsets, status, calls, last, declared, eval, book

vars == <<nodes, edges, offsets, status, calls, last, declared, eval, book>>

\* Number of mutating calls made on one DependencyTree in a run.
MaxCalls == 2

(***************************************************************************)
(* Sequence helpers                                                        *)
(***************************************************************************)
Range(s) == {s[i] : i \in 1..Len(s)}

InSeq(x, s) == \E i \in 1..Len(s) : s[i] = x

Reverse(s) == [i \in 1..Len(s) |-> s[Len(s) + 1 - i]]

Min(a, b) == IF a <= b THEN a ELSE b

(***************************************************************************)
(* CellId (dependency.rs:17-25).  calculated is Option<bool>: "None",      *)
(* "false" or "true".  The derive(Hash, PartialEq, Eq) compares all six    *)
(* fields, which is record equality here.                                  *)
(***************************************************************************)
CellId(sheet, row, column, num_row, num_col, calculated) ==
    [sheet |-> sheet, row |-> row, column |-> column,
     num_row |-> num_row, num_col |-> num_col, calculated |-> calculated]

\* The five-field conversion used by add_expression (dependency.rs:105,109);
\* its impl is not among the sources, the flag is left unset.
CellIdFrom5(sheet, row, column, num_row, num_col) ==
    CellId(sheet, row, column, num_row, num_col, "None")

\* The positional fields of a CellId (everything but calculated).
Position(c) == <<c.sheet, c.row, c.column, c.num_row, c.num_col>>

\* impl Ord for CellId (dependency.rs:33-45): sheet, then row, then column.
\* Result is -1 (Less), 0 (Equal) or 1 (Greater).
CmpNat(a, b) == IF a < b THEN -1 ELSE IF a > b THEN 1 ELSE 0

CellCmp(a, b) ==
    IF a.sheet = b.sheet
    THEN IF a.row # b.row THEN CmpNat(a.row, b.row)
         ELSE CmpNat(a.column, b.column)
    ELSE CmpNat(a.sheet, b.sheet)

(***************************************************************************)
(* Sheets of the workbook handed to add_formula: name, max_rows,           *)
(* max_columns.  Rust indexes them from 0; SheetAt(i) is sheets.get(i).    *)
(***************************************************************************)
Sheets ==
    << [name |-> "Sheet1", max_rows |-> 3, max_columns |-> 1],
       [name |-> "Sheet2", max_rows |-> 1, max_columns |-> 2] >>

SheetAt(i) == Sheets[i + 1]

\* sheets.iter().position(|x| x.name == s): index of the first sheet with
\* that name, or -1 for None (on which the code unwraps and panics).
SheetPosition(s) ==
    IF \E i \in 1..Len(Sheets) : Sheets[i].name = s
    THEN (CHOOSE i \in 1..Len(Sheets) :
             /\ Sheets[i].name = s
             /\ \A j \in 1..(i - 1) : Sheets[j].name # s) - 1
    ELSE -1

(***************************************************************************)
(* Reference: a parsed A1-style reference.  kind is "cell" (B7), "range"   *)
(* (A1:C3), "vrange" (C:C) or "hrange" (3:3); rows and columns zero-based. *)
(***************************************************************************)
\* usize::MAX stands for the unbounded extent of a full column / full row.
UsizeMax == 1000

RefCell(row, col) == [row |-> row, col |-> col, kind |-> "cell", erow |-> row, ecol |-> col]

RefRange(row, col, erow, ecol) == [row |-> row, col |-> col, kind |-> "range", erow |-> erow, ecol |-> ecol]

RefVRange(col) == [row |-> 0, col |-> col, kind |-> "vrange", erow |-> 0, ecol |-> col]

RefHRange(row) == [row |-> row, col |-> 0, kind |-> "hrange", erow |-> row, ecol |-> 0]

\* Reference::get_dimensions: <<start_row, start_col, num_rows, num_cols>>.
GetDimensions(r) ==
    CASE r.kind = "cell"   -> <<r.row, r.col, 1, 1>>
      [] r.kind = "range"  -> <<r.row, r.col, r.erow - r.row + 1, r.ecol - r.col + 1>>
      [] r.kind = "vrange" -> <<0, r.col, UsizeMax, 1>>
      [] r.kind = "hrange" -> <<r.row, 0, 1, UsizeMax>>

\* Reference::is_multi_cell
IsMultiCell(r) == r.kind # "cell"

\* Reference::get_cells_from_dim: the <<row, col>> pairs of the region,
\* row-major.
GetCellsFromDim(start_row, start_col, num_rows, num_cols) ==
    [k \in 1..(num_rows * num_cols) |->
        <<start_row + ((k - 1) \div num_cols), start_col + ((k - 1) % num_cols)>>]

(***************************************************************************)
(* Expr: the expression tree produced by the parser.  One record shape for *)
(* all variants: type is "Literal", "Reference", "Infix", "Prefix",        *)
(* "Func", "Array" or "Error"; sheet is <<>> for None and <<name>> for     *)
(* Some(name); args holds the operands / arguments / elements in order.    *)
(***************************************************************************)
NoRef == RefCell(0, 0)

Literal == [sheet |-> <<>>, name |-> "", type |-> "Literal", reference |-> NoRef, args |-> <<>>]

Reference(sheet, reference) == [sheet |-> sheet, name |-> "", type |-> "Reference", reference |-> reference, args |-> <<>>]

Infix(op, a, b) == [sheet |-> <<>>, name |-> op, type |-> "Infix", reference |-> NoRef, args |-> <<a, b>>]

Prefix(op, a) == [sheet |-> <<>>, name |-> op, type |-> "Prefix", reference |-> NoRef, args |-> <<a>>]

Func(name, args) == [sheet |-> <<>>, name |-> name, type |-> "Func", reference |-> NoRef, args |-> args]

Array(arr) == [sheet |-> <<>>, name |-> "", type |-> "Array", reference |-> NoRef, args |-> arr]

(***************************************************************************)
(* The graph.  A tree value t is [nodes, edges, offsets, panicked]:        *)
(* panicked records that an unwrap() on None aborted the call, after       *)
(* which nothing else of the call runs.                                    *)
(***************************************************************************)
\* DiGraphMap::contains_node, through DependencyTree::cell_exists
CellExists(t, c) == InSeq(c, t.nodes)

\* DiGraphMap::contains_edge
ContainsEdge(t, a, b) == InSeq(<<a, b>>, t.edges)

\* DiGraphMap::add_node, through DependencyTree::add_cell: a node already
\* present is left where it is.
AddCell(t, c) ==
    IF InSeq(c, t.nodes) THEN t
    ELSE [t EXCEPT !.nodes = Append(@, c)]

\* add_cell_if_missing (dependency.rs:152-156): add_cell runs only when the
\* node is already contained.
AddCellIfMissing(t, c) ==
    IF CellExists(t, c) THEN AddCell(t, c) ELSE t

\* add_edge storing the edge without looking for an existing one.
AddEdgeNoDedupe(t, a, b) ==
    [AddCell(AddCell(t, a), b) EXCEPT !.edges = Append(@, <<a, b>>)]

\* DiGraphMap::add_edge(a, b, 0): an existing edge only has its weight
\* rewritten; a new edge is stored and its end points a, then b, are
\* inserted as nodes when absent.
AddEdge(t, a, b) ==
    IF InSeq(<<a, b>>, t.edges) THEN t
    ELSE [AddCell(AddCell(t, a), b) EXCEPT !.edges = Append(@, <<a, b>>)]

\* add_precedent storing its edge without looking for the edge cell -> precedent.
AddPrecedentUnguarded(t, precedent, cell) ==
    AddEdge(AddCellIfMissing(AddCellIfMissing(t, precedent), cell), precedent, cell)

\* add_precedent (dependency.rs:158-164)
AddPrecedent(t, precedent, cell) ==
    LET t1 == AddCellIfMissing(t, precedent)
        t2 == AddCellIfMissing(t1, cell)
    IN  IF ~ContainsEdge(t2, cell, precedent)
        THEN AddEdge(t2, precedent, cell)
        ELSE t2

\* is_precedent_of (dependency.rs:166-168)
IsPrecedentOf(t, cell1, cell2) == ContainsEdge(t, cell1, cell2)

\* is_dependent_of (dependency.rs:170-172)
IsDependentOf(t, cell1, cell2) == ContainsEdge(t, cell2, cell1)

(***************************************************************************)
(* add_expression (dependency.rs:89-142)                                   *)
(***************************************************************************)
\* The precedent CellId built for a reference on sheet sheet_id
\* (dependency.rs:100-105): the dimensions with num_rows and num_cols
\* capped at the sheet's max_rows and max_columns.
PreCell(sheet_id, reference) ==
    LET dim      == GetDimensions(reference)
        sheet    == SheetAt(sheet_id)
        num_rows == Min(dim[3], sheet.max_rows)
        num_cols == Min(dim[4], sheet.max_columns)
    IN  CellIdFrom5(sheet_id, dim[1], dim[2], num_rows, num_cols)

\* The loop of dependency.rs:108-113 over the cells cs of the region.
RECURSIVE AddSubCells(_, _, _, _)
AddSubCells(t, sheet_id, cs, pre_cell) ==
    IF cs = <<>> THEN t
    ELSE LET c        == Head(cs)
             sub_cell == CellIdFrom5(sheet_id, c[1], c[2], 1, 1)
             t1       == IF sub_cell # pre_cell
                         THEN AddPrecedent(t, sub_cell, pre_cell)
                         ELSE t
         IN  AddSubCells(t1, sheet_id, Tail(cs), pre_cell)

\* The Expr::Reference arm (dependency.rs:91-117)
AddReference(t, cell, sheet, reference) ==
    LET sheet_id == IF sheet # <<>> THEN SheetPosition(sheet[1]) ELSE cell.sheet
    IN  IF sheet_id < 0 \/ sheet_id >= Len(Sheets)
        THEN [t EXCEPT !.panicked = TRUE]
        ELSE LET pre_cell == PreCell(sheet_id, reference)
                 t1 == IF ~CellExists(t, pre_cell) /\ IsMultiCell(reference)
                       THEN AddSubCells(t, sheet_id,
                                GetCellsFromDim(pre_cell.row, pre_cell.column,
                                                pre_cell.num_row, pre_cell.num_col),
                                pre_cell)
                       ELSE t
             IN  AddPrecedent(t1, pre_cell, cell)

\* The Expr::Func arm's test (dependency.rs:126-128)
PushOffset(t, cell, name) ==
    IF name = "OFFSET" THEN [t EXCEPT !.offsets = Append(@, cell)] ELSE t

RECURSIVE AddExpression(_, _, _)
RECURSIVE AddExpressions(_, _, _)
AddExpression(t, cell, expression) ==
    IF t.panicked THEN t
    ELSE CASE expression.type = "Reference" ->
                AddReference(t, cell, expression.sheet, expression.reference)
           [] expression.type = "Infix" ->
                AddExpressions(t, cell, expression.args)
           [] expression.type = "Prefix" ->
                AddExpressions(t, cell, expression.args)
           [] expression.type = "Func" ->
                AddExpressions(PushOffset(t, cell, expression.name), cell, expression.args)
           [] expression.type = "Array" ->
                AddExpressions(t, cell, expression.args)
           [] OTHER -> t

\* "for arg in args.into_iter() { self.add_expression(cell, arg, sheets)?; }"
AddExpressions(t, cell, exprs) ==
    IF exprs = <<>> \/ t.panicked THEN t
    ELSE AddExpressions(AddExpression(t, cell, Head(exprs)), cell, Tail(exprs))

(***************************************************************************)
(* get_order (dependency.rs:174-182): petgraph::algo::toposort over the    *)
(* graph, a panic on Err(Cycle).  toposort is computed as the library      *)
(* computes it: an iterative depth-first search from every node in reverse *)
(* insertion order that records the nodes as they finish, the finish list  *)
(* reversed, then a check pass over the reversed graph that reports a      *)
(* cycle when a node of the list reaches an undiscovered predecessor.      *)
(***************************************************************************)
\* g.neighbors(n): the targets of n's outgoing edges, in insertion order.
RECURSIVE Neighbors(_, _)
Neighbors(es, n) ==
    IF es = <<>> THEN <<>>
    ELSE IF Head(es)[1] = n THEN <<Head(es)[2]>> \o Neighbors(Tail(es), n)
         ELSE Neighbors(Tail(es), n)

\* Reversed(g).neighbors(n): the sources of n's incoming edges.
RECURSIVE Predecessors(_, _)
Predecessors(es, n) ==
    IF es = <<>> THEN <<>>
    ELSE IF Head(es)[2] = n THEN <<Head(es)[1]>> \o Predecessors(Tail(es), n)
         ELSE Predecessors(Tail(es), n)

\* The elements of s that are not in the set d, in order.
RECURSIVE Undiscovered(_, _)
Undiscovered(s, d) ==
    IF s = <<>> THEN <<>>
    ELSE IF Head(s) \in d THEN Undiscovered(Tail(s), d)
         ELSE <<Head(s)>> \o Undiscovered(Tail(s), d)

\* "while let Some(&nx) = dfs.stack.last()" of the first pass.  st is
\* [discovered, finished, stack, finish_stack, cycle]; the top of the stack
\* is its last element.
RECURSIVE DfsFinish(_, _)
DfsFinish(es, st) ==
    IF st.cycle \/ st.stack = <<>> THEN st
    ELSE LET nx == st.stack[Len(st.stack)]
         IN  IF nx \notin st.discovered
             THEN LET succs == Neighbors(es, nx)
                      disc  == st.discovered \cup {nx}
                  IN  IF InSeq(nx, succs)
                      THEN [st EXCEPT !.cycle = TRUE]
                      ELSE DfsFinish(es, [st EXCEPT !.discovered = disc,
                                                   !.stack = @ \o Undiscovered(succs, disc)])
             ELSE LET popped == SubSeq(st.stack, 1, Len(st.stack) - 1)
                  IN  IF nx \notin st.finished
                      THEN DfsFinish(es, [st EXCEPT !.stack = popped,
                                                   !.finished = @ \cup {nx},
                                                   !.finish_stack = Append(@, nx)])
                      ELSE DfsFinish(es, [st EXCEPT !.stack = popped])

\* "for i in g.node_identifiers().rev()" over the remaining nodes ns
\* (already reversed).
RECURSIVE FinishAll(_, _, _)
FinishAll(es, ns, st) ==
    IF st.cycle \/ ns = <<>> THEN st
    ELSE IF Head(ns) \in st.discovered
         THEN FinishAll(es, Tail(ns), st)
         ELSE FinishAll(es, Tail(ns),
                        DfsFinish(es, [st EXCEPT !.stack = Append(@, Head(ns))]))

\* Dfs::next on the reversed graph: pop until an undiscovered node turns
\* up, discover it and push its undiscovered predecessors.  Returns
\* [stack, discovered, found].
RECURSIVE DfsNext(_, _, _)
DfsNext(es, stack, discovered) ==
    IF stack = <<>> THEN [stack |-> stack, discovered |-> discovered, found |-> FALSE]
    ELSE LET node   == stack[Len(stack)]
             popped == SubSeq(stack, 1, Len(stack) - 1)
         IN  IF node \notin discovered
             THEN LET disc == discovered \cup {node}
                  IN  [stack |-> popped \o Undiscovered(Predecessors(es, node), disc),
                       discovered |-> disc, found |-> TRUE]
             ELSE DfsNext(es, popped, discovered)

\* The second pass: for each i of the finish list, move_to(i) and call next
\* until None; a second node found from the same i is a cycle.  Returns
\* TRUE when a cycle is reported.
RECURSIVE CycleCheck(_, _, _)
CycleCheck(es, order, discovered) ==
    IF order = <<>> THEN FALSE
    ELSE LET first == DfsNext(es, <<Head(order)>>, discovered)
         IN  IF ~first.found
             THEN CycleCheck(es, Tail(order), first.discovered)
             ELSE LET second == DfsNext(es, first.stack, first.discovered)
                  IN  IF second.found THEN TRUE
                      ELSE CycleCheck(es, Tail(order), second.discovered)

\* The finish list handed back as recorded, dependents first.
FinishOrderUnreversed(finish_stack) == finish_stack

\* finish_stack.reverse()
FinishOrder(finish_stack) == Reverse(finish_stack)

\* toposort(&self.tree, None): [ok, order]; ok = FALSE is Err(Cycle).
Toposort(ns, es) ==
    LET st == FinishAll(es, Reverse(ns),
                        [discovered |-> {}, finished |-> {}, stack |-> <<>>,
                         finish_stack |-> <<>>, cycle |-> FALSE])
        order == FinishOrder(st.finish_stack)
    IN  IF st.cycle THEN [ok |-> FALSE, order |-> <<>>]
        ELSE IF CycleCheck(es, order, {}) THEN [ok |-> FALSE, order |-> <<>>]
        ELSE [ok |-> TRUE, order |-> order]

(***************************************************************************)
(* Value domain (src/src/evaluate/value.rs).                               *)
(*                                                                         *)
(* f64 is kept as an exact fraction n/d in lowest terms (c = "fin") or one *)
(* of the IEEE specials "inf", "ninf", "nan"; rounding and the sign of     *)
(* zero are not represented.  Text is the sequence of its character codes. *)
(***************************************************************************)
Abs(x) == IF x < 0 THEN -x ELSE x

Sign(x) == IF x < 0 THEN -1 ELSE IF x > 0 THEN 1 ELSE 0

RECURSIVE GCD(_, _)
GCD(a, b) == IF b = 0 THEN a ELSE GCD(b, a % b)

\* The f64 n/d, d > 0.
Fin(n, d) ==
    LET Reduced(g) == [c |-> "fin", n |-> n \div g, d |-> d \div g]
    IN  Reduced(GCD(Abs(n), d))

Inf == [c |-> "inf", n |-> 0, d |-> 1]

NInf == [c |-> "ninf", n |-> 0, d |-> 1]

NaN == [c |-> "nan", n |-> 0, d |-> 1]

\* -1, 0, 1 for a value other than NaN.
FSign(a) == CASE a.c = "fin" -> Sign(a.n) [] a.c = "inf" -> 1 [] a.c = "ninf" -> -1 [] OTHER -> 0

Signed(s) == IF s > 0 THEN Inf ELSE NInf

\* f64 negation, addition, subtraction, multiplication, division
FNeg(a) ==
    CASE a.c = "fin"  -> Fin(-a.n, a.d)
      [] a.c = "inf"  -> NInf
      [] a.c = "ninf" -> Inf
      [] OTHER        -> NaN

FAdd(a, b) ==
    IF a.c = "nan" \/ b.c = "nan" THEN NaN
    ELSE IF a.c = "fin" /\ b.c = "fin" THEN Fin(a.n * b.d + b.n * a.d, a.d * b.d)
    ELSE IF a.c = "fin" THEN b
    ELSE IF b.c = "fin" THEN a
    ELSE IF a.c = b.c THEN a
    ELSE NaN

FSub(a, b) == FAdd(a, FNeg(b))

FMul(a, b) ==
    IF a.c = "nan" \/ b.c = "nan" THEN NaN
    ELSE IF a.c = "fin" /\ b.c = "fin" THEN Fin(a.n * b.n, a.d * b.d)
    ELSE IF FSign(a) = 0 \/ FSign(b) = 0 THEN NaN
    ELSE Signed(FSign(a) * FSign(b))

\* x / 0.0 is an infinity with the sign of x, and 0.0 / 0.0 is NaN.
FDiv(a, b) ==
    IF a.c = "nan" \/ b.c = "nan" THEN NaN
    ELSE IF a.c = "fin" /\ b.c = "fin"
         THEN IF b.n = 0
              THEN IF a.n = 0 THEN NaN ELSE Signed(a.n)
              ELSE Fin(a.n * b.d * Sign(b.n), a.d * Abs(b.n))
    ELSE IF a.c = "fin" THEN Fin(0, 1)
    ELSE IF b.c = "fin" THEN Signed(FSign(a) * (IF b.n < 0 THEN -1 ELSE 1))
    ELSE NaN

\* f64::partial_cmp: "Less", "Equal", "Greater", or "None" with a NaN.
FCmp(a, b) ==
    IF a.c = "nan" \/ b.c = "nan" THEN "None"
    ELSE IF a.c = "fin" /\ b.c = "fin"
         THEN IF a.n * b.d < b.n * a.d THEN "Less"
              ELSE IF a.n * b.d > b.n * a.d THEN "Greater" ELSE "Equal"
    ELSE IF FSign(a) = FSign(b) /\ a.c # "fin" /\ b.c # "fin" THEN "Equal"
    ELSE IF a.c = "ninf" \/ b.c = "inf" THEN "Less"
    ELSE "Greater"

\* Ord::cmp on integers (bool, char codes, days).
ICmp(a, b) == IF a < b THEN "Less" ELSE IF a > b THEN "Greater" ELSE "Equal"

\* str::cmp: lexicographic on the character codes.
RECURSIVE TextCmp(_, _)
TextCmp(s, t) ==
    IF s = <<>> THEN (IF t = <<>> THEN "Equal" ELSE "Less")
    ELSE IF t = <<>> THEN "Greater"
    ELSE IF Head(s) # Head(t) THEN ICmp(Head(s), Head(t))
    ELSE TextCmp(Tail(s), Tail(t))

(***************************************************************************)
(* Value (value.rs:16-27), with the Error variant the function library     *)
(* builds (function/mod.rs:243).  One record shape for all variants: tag   *)
(* names the variant; num, flag, text, day, kind hold the payload of Num,  *)
(* Bool, Text / Formula, Date, Error; elems holds the elements of an Array *)
(* and, row-major with cols columns, of an Array2.                         *)
(***************************************************************************)
Variant(tag) ==
    [kind |-> "", tag |-> tag, num |-> Fin(0, 1), flag |-> FALSE, text |-> <<>>,
     day |-> 0, elems |-> <<>>, cols |-> 0]

Num(x) == [Variant("Num") EXCEPT !.num = x]

Bool(b) == [Variant("Bool") EXCEPT !.flag = b]

Text(s) == [Variant("Text") EXCEPT !.text = s]

\* A calendar date, as its day number.
Date(day) == [Variant("Date") EXCEPT !.day = day]

ArrayOf(elems) == [Variant("Array") EXCEPT !.elems = elems]

\* Array2 of the given number of columns, elements row-major.
Array2Of(cols, elems) == [Variant("Array2") EXCEPT !.elems = elems, !.cols = cols]

ErrorOf(kind) == [Variant("Error") EXCEPT !.kind = kind]

Empty == Variant("Empty")

\* Num of the integer n.
NumOf(n) == Num(Fin(n, 1))

IsNum(v) == v.tag = "Num"

IsBool(v) == v.tag = "Bool"

IsText(v) == v.tag = "Text"

IsDate(v) == v.tag = "Date"

\* Value::is_err
IsErr(v) == v.tag = "Error"

(***************************************************************************)
(* Results of an evaluation: res is "Ok" with the value val, "Panic" when  *)
(* the code panics (unwrap, panic!, index out of bounds), or "Err" with    *)
(* the function name in name for Err(Error::FunctionNotSupport(name)).     *)
(* ord holds the outcome of a comparison.                                  *)
(***************************************************************************)
Ok(v) == [name |-> "", res |-> "Ok", val |-> v, ord |-> ""]

Panic == [name |-> "", res |-> "Panic", val |-> Empty, ord |-> ""]

\* Some(ord) / None of partial_cmp, in ord.
Ordering(ord) == [name |-> "", res |-> "Ok", val |-> Empty, ord |-> ord]

FunctionNotSupport(name) == [name |-> name, res |-> "Err", val |-> Empty, ord |-> ""]

\* The number written by a string of digits, and 10 to the power k.
RECURSIVE DigitsValue(_)
DigitsValue(s) ==
    IF s = <<>> THEN 0
    ELSE 10 * DigitsValue(SubSeq(s, 1, Len(s) - 1)) + (s[Len(s)] - 48)

RECURSIVE Pow10(_)
Pow10(k) == IF k = 0 THEN 1 ELSE 10 * Pow10(k - 1)

\* str::parse::<f64> on texts made of a sign (+ 43, - 45), digits (48..57)
\* and a decimal point (46): <<>> for Err, <<x>> for Ok(x).
ParseF64(t) ==
    LET AllDigits(u) == \A k \in 1..Len(u) : 48 <= u[k] /\ u[k] <= 57
        Parts(negative, whole, frac) ==
            IF AllDigits(whole) /\ AllDigits(frac) /\ Len(whole) + Len(frac) > 0
            THEN LET Magnitude(mag) == <<IF negative THEN FNeg(mag) ELSE mag>>
                 IN  Magnitude(Fin(DigitsValue(whole \o frac), Pow10(Len(frac))))
            ELSE <<>>
        Unsigned(negative, body) ==
            LET Dotted(dots) ==
                    IF dots = {} THEN Parts(negative, body, <<>>)
                    ELSE IF Cardinality(dots) > 1 THEN <<>>
                    ELSE LET At(k) == Parts(negative, SubSeq(body, 1, k - 1),
                                            SubSeq(body, k + 1, Len(body)))
                         IN  At(CHOOSE k \in dots : TRUE)
            IN  Dotted({k \in 1..Len(body) : body[k] = 46})
    IN  IF t # <<>> /\ (t[1] = 45 \/ t[1] = 43)
        THEN Unsigned(t[1] = 45, Tail(t))
        ELSE Unsigned(FALSE, t)

\* as_num (value.rs:48-63): a result whose val is Num(x) for the f64 x.
RECURSIVE AsNum(_)
AsNum(v) ==
    LET Parsed(p) == IF p = <<>> THEN Panic ELSE Ok(Num(p[1]))
    IN  CASE v.tag = "Num"  -> Ok(v)
          [] v.tag = "Text" -> Parsed(ParseF64(v.text))
          [] v.tag = "Bool" -> Ok(IF v.flag THEN NumOf(1) ELSE NumOf(0))
          [] v.tag = "Array2" ->
                IF v.elems = <<>> THEN Panic ELSE AsNum(v.elems[1])
          [] OTHER -> Panic

\* as_text (value.rs:81-87)
AsText(v) == IF v.tag = "Text" \/ v.tag = "Formula" THEN Ok(Text(v.text)) ELSE Panic

(***************************************************************************)
(* Operators on Value (value.rs:132-242)                                   *)
(***************************************************************************)
\* variant_ord (value.rs:132-148): the index of the first test that holds
\* among is_bool, is_text, is_num, is_date, or 4.
VariantOrdSwapped(v) ==
    CASE IsBool(v) -> 0 [] IsNum(v) -> 1 [] IsText(v) -> 2 [] IsDate(v) -> 3 [] OTHER -> 4

VariantOrd(v) ==
    CASE IsBool(v) -> 0 [] IsText(v) -> 1 [] IsNum(v) -> 2 [] IsDate(v) -> 3 [] OTHER -> 4

\* partial_cmp (value.rs:150-176)
PartialCmp(self, other) ==
    LET self_rank  == VariantOrd(self)
        other_rank == VariantOrd(other)
    IN  IF self_rank > other_rank THEN Ordering("Greater")
        ELSE IF self_rank < other_rank THEN Ordering("Less")
        ELSE IF IsBool(self)
             THEN Ordering(ICmp(IF self.flag THEN 1 ELSE 0, IF other.flag THEN 1 ELSE 0))
        ELSE IF IsText(self) THEN Ordering(TextCmp(self.text, other.text))
        ELSE IF IsNum(self) THEN Ordering(FCmp(self.num, other.num))
        ELSE IF IsDate(self) THEN Ordering(ICmp(self.day, other.day))
        ELSE Ordering("None")

\* Value::from(F(a.as_num(), b.as_num())): a panic of either as_num aborts.
NumBinary(F(_, _), a, b) ==
    LET Both(x, y) == IF x.res # "Ok" \/ y.res # "Ok" THEN Panic
                      ELSE Ok(Num(F(x.val.num, y.val.num)))
    IN  Both(AsNum(a), AsNum(b))

\* impl Add (value.rs:178-190)
Add(self, other) ==
    LET Joined(t) == IF t.res # "Ok" THEN Panic ELSE Ok(Text(self.text \o t.val.text))
    IN  CASE self.tag = "Num"    -> NumBinary(FAdd, self, other)
          [] self.tag = "Text"   -> Joined(AsText(other))
          [] self.tag = "Bool"   -> NumBinary(FAdd, self, other)
          [] self.tag = "Array2" -> NumBinary(FAdd, self, other)
          [] OTHER -> Panic

\* impl AddAssign (value.rs:192-200)
AddAssign(self, other) == IF IsNum(self) THEN Add(self, other) ELSE Panic

\* impl Sub (value.rs:202-212)
Sub(self, other) ==
    CASE self.tag = "Num"  -> NumBinary(FSub, self, other)
      [] self.tag = "Bool" -> NumBinary(FSub, self, other)
      [] OTHER -> Panic

\* impl Mul (value.rs:214-224)
Mul(self, other) ==
    CASE self.tag = "Num"  -> NumBinary(FMul, self, other)
      [] self.tag = "Bool" -> NumBinary(FMul, self, other)
      [] OTHER -> Panic

\* impl Div (value.rs:226-235)
Div(self, other) ==
    CASE self.tag = "Num" -> NumBinary(FDiv, self, other)
      [] OTHER -> Panic

\* impl Neg (value.rs:237-242)
Neg(self) ==
    LET Negated(x) == IF x.res # "Ok" THEN Panic ELSE Ok(Num(FNeg(x.val.num)))
    IN  Negated(AsNum(self))

(***************************************************************************)
(* Function library (function/mod.rs, and the earlier function.rs)         *)
(***************************************************************************)
\* `if x.is_num()` on an element of an array argument (function/mod.rs:112)
ElementCoerced(x) == AsNum(x).res = "Ok"

ElementAdded(x) == IsNum(x)

\* for x in arr { if x.is_num() { s += x } } (function/mod.rs:111-115)
RECURSIVE AddNums(_, _)
AddNums(arr, s) ==
    LET Rest(r) == IF r.res # "Ok" THEN r ELSE AddNums(Tail(arr), r.val)
    IN  IF arr = <<>> THEN Ok(s)
        ELSE IF ElementAdded(Head(arr)) THEN Rest(AddAssign(s, Head(arr)))
        ELSE AddNums(Tail(arr), s)

\* The f64 fold over the elements of an Array2 (function/mod.rs:118-123)
RECURSIVE FoldNums(_, _)
FoldNums(arr_vec, s) ==
    IF arr_vec = <<>> THEN s
    ELSE IF ElementAdded(Head(arr_vec))
         THEN FoldNums(Tail(arr_vec), FAdd(s, Head(arr_vec).num))
         ELSE FoldNums(Tail(arr_vec), s)

\* sum (function/mod.rs:107-129): the fold over args, the last argument
\* added to the sum of the ones before it.
RECURSIVE Sum(_)
Sum(args) ==
    LET Scalar(s, n) == IF n.res # "Ok" THEN Panic ELSE AddAssign(s, n.val)
        Last(before, v) ==
            IF before.res # "Ok" THEN before
            ELSE CASE v.tag = "Array"  -> AddNums(v.elems, before.val)
                   [] v.tag = "Array2" ->
                         AddAssign(before.val, Num(FoldNums(v.elems, Fin(0, 1))))
                   [] OTHER -> Scalar(before.val, AsNum(v))
    IN  IF args = <<>> THEN Ok(NumOf(0))
        ELSE Last(Sum(SubSeq(args, 1, Len(args) - 1)), args[Len(args)])

\* sum (function.rs:28-48): an Array2 is walked like an Array.
RECURSIVE FunctionRsSum(_)
FunctionRsSum(args) ==
    LET Scalar(s, n) == IF n.res # "Ok" THEN Panic ELSE AddAssign(s, n.val)
        Last(before, v) ==
            IF before.res # "Ok" THEN before
            ELSE CASE v.tag = "Array"  -> AddNums(v.elems, before.val)
                   [] v.tag = "Array2" -> AddNums(v.elems, before.val)
                   [] OTHER -> Scalar(before.val, AsNum(v))
    IN  IF args = <<>> THEN Ok(NumOf(0))
        ELSE Last(FunctionRsSum(SubSeq(args, 1, Len(args) - 1)), args[Len(args)])

\* The loop of average (function/mod.rs:135-147): sum_values after the
\* arguments args, as an Array; count is its length.
RECURSIVE SumValues(_, _)
SumValues(args, sum_values) ==
    LET Pushed(n) == IF n.res # "Ok" THEN Panic
                     ELSE SumValues(Tail(args), Append(sum_values, n.val))
    IN  IF args = <<>> THEN Ok(ArrayOf(sum_values))
        ELSE IF Head(args).tag = "Array"
        THEN SumValues(Tail(args),
                       sum_values \o SelectSeq(Head(args).elems, LAMBDA x : IsNum(x)))
        ELSE Pushed(AsNum(Head(args)))

\* average (function/mod.rs:131-153)
Average(args) ==
    LET Mean(sum_values) ==
            Ok(Num(FDiv(FoldNums(sum_values, Fin(0, 1)), Fin(Len(sum_values), 1))))
        Collected(r) == IF r.res # "Ok" THEN Panic ELSE Mean(r.val.elems)
    IN  Collected(SumValues(args, <<>>))

\* average (function.rs:50-72), the same text as in function/mod.rs
FunctionRsAverage(args) == Average(args)

\* Iferror::evaluate (function/mod.rs:363-371)
IferrorSwapped(a, b) == IF IsErr(a) THEN a ELSE b

Iferror(a, b) == IF IsErr(a) THEN b ELSE a

(***************************************************************************)
(* Criteria (function/mod.rs:388-556)                                      *)
(***************************************************************************)
\* The comparators in the order parse_criteria tries them
\* (function/mod.rs:474-485): <>, <=, <, >=, >, =.
Comparators == << <<60, 62>>, <<60, 61>>, <<60>>, <<62, 61>>, <<62>>, <<61>> >>

\* The positions at which pat occurs in s.
Occurs(s, pat) ==
    {k \in 1..(Len(s) - Len(pat) + 1) : SubSeq(s, k, k + Len(pat) - 1) = pat}

First(S) == CHOOSE k \in S : \A j \in S : k <= j

\* c.split(op).collect::<Vec<&str>>()[1], for a c in which op occurs:
\* the text between the first occurrence of op and the next one.
SplitSecond(c, op) ==
    LET Piece(rest, next) == IF next = {} THEN rest ELSE SubSeq(rest, 1, First(next) - 1)
        After(rest) == Piece(rest, Occurs(rest, op))
    IN  After(SubSeq(c, First(Occurs(c, op)) + Len(op), Len(c)))

\* replace("\"", ""): the text without its quote characters (34)
RemoveQuotes(t) == SelectSeq(t, LAMBDA ch : ch # 34)

\* ensure_single: the element of a 1x1 Array2, any other value itself.
EnsureSingle(v) == IF v.tag = "Array2" /\ Len(v.elems) = 1 THEN v.elems[1] ELSE v

\* evaluate_str("\"lh\"op\"rh\"").unwrap().as_bool(): the two texts compared
\* under op by the comparison of Value.
EvaluateComparison(op, lh, rh) ==
    LET Under(ord) ==
            CASE op = <<60, 62>> -> ord # "Equal"
              [] op = <<60, 61>> -> ord \in {"Less", "Equal"}
              [] op = <<60>>     -> ord = "Less"
              [] op = <<62, 61>> -> ord \in {"Greater", "Equal"}
              [] op = <<62>>     -> ord = "Greater"
              [] op = <<61>>     -> ord = "Equal"
    IN  Under(PartialCmp(Text(lh), Text(rh)).ord)

\* parse_criteria (function/mod.rs:472-500)
ParseCriteria(c, cell) ==
    LET Compared(text, op) ==
            IF text.res # "Ok" THEN Panic
            ELSE IF op # <<>>
            THEN Ok(Bool(EvaluateComparison(op, RemoveQuotes(SplitSecond(c, op)),
                                            RemoveQuotes(text.val.text))))
            ELSE Ok(Bool(EvaluateComparison(<<61>>, RemoveQuotes(c),
                                            RemoveQuotes(text.val.text))))
        Found(found) ==
            Compared(AsText(EnsureSingle(cell)),
                     IF found = {} THEN <<>> ELSE Comparators[First(found)])
    IN  Found({k \in 1..Len(Comparators) : Occurs(c, Comparators[k]) # {}})

Failed == [ok |-> FALSE, hit |-> <<>>, keep |-> <<>>, nums |-> <<>>]

Positions(n) == [y \in 1..n |-> y]

\* The head of the loop over pairs (function/mod.rs:392-396): hit[y] is
\* parse_criteria(criteria_text, cell_range[y]).
Matches(cell_range, criteria) ==
    LET All(evals) ==
            IF \E y \in 1..Len(evals) : evals[y].res # "Ok" THEN Failed
            ELSE [Failed EXCEPT !.ok = TRUE,
                                !.hit = [y \in 1..Len(evals) |-> evals[y].val.flag]]
        With(criteria_text) ==
            IF cell_range.tag # "Array" \/ criteria_text.res # "Ok" THEN Failed
            ELSE All([y \in 1..Len(cell_range.elems) |->
                         ParseCriteria(criteria_text.val.text, cell_range.elems[y])])
    IN  With(AsText(EnsureSingle(criteria)))

\* keep_index after the pairs args, pair number idx onwards, in sumifs and
\* countifs (function/mod.rs:391-407, 423-439).
RECURSIVE KeepIndex(_, _, _)
KeepIndex(args, idx, keep_index) ==
    LET Pair(m) ==
            IF ~m.ok THEN Failed
            ELSE KeepIndex(SubSeq(args, 3, Len(args)), idx + 1,
                     IF idx = 0
                     THEN SelectSeq(Positions(Len(m.hit)), LAMBDA y : m.hit[y])
                     ELSE SelectSeq(keep_index,
                                    LAMBDA y : ~(y <= Len(m.hit) /\ ~m.hit[y])))
    IN  IF args = <<>> THEN [Failed EXCEPT !.ok = TRUE, !.keep = keep_index]
        ELSE IF Len(args) < 2 THEN Failed
        ELSE Pair(Matches(args[1], args[2]))

\* keep_index after the pairs args in averageifs (function/mod.rs:535-545).
RECURSIVE KeepIndexAverageifs(_, _)
KeepIndexAverageifs(args, keep_index) ==
    LET Pair(m) ==
            IF ~m.ok THEN Failed
            ELSE KeepIndexAverageifs(SubSeq(args, 3, Len(args)),
                     keep_index \o SelectSeq(Positions(Len(m.hit)),
                                             LAMBDA y : m.hit[y] /\ ~InSeq(y, keep_index)))
    IN  IF args = <<>> THEN [Failed EXCEPT !.ok = TRUE, !.keep = keep_index]
        ELSE IF Len(args) < 2 THEN Failed
        ELSE Pair(Matches(args[1], args[2]))

\* The numbers of range at the positions of keep_index
\* (function/mod.rs:408-415, 546-552).
Kept(range, keep_index) ==
    LET Numbers(nums) ==
            IF \E k \in 1..Len(nums) : nums[k].res # "Ok" THEN Failed
            ELSE [Failed EXCEPT !.ok = TRUE,
                                !.nums = [k \in 1..Len(nums) |-> nums[k].val.num]]
        Picked(picked) == Numbers([k \in 1..Len(picked) |-> AsNum(range.elems[picked[k]])])
    IN  IF range.tag # "Array" THEN Failed
        ELSE Picked(SelectSeq(Positions(Len(range.elems)), LAMBDA i : InSeq(i, keep_index)))

\* iter().sum::<f64>()
RECURSIVE FSum(_)
FSum(nums) == IF nums = <<>> THEN Fin(0, 1) ELSE FAdd(Head(nums), FSum(Tail(nums)))

\* sumifs (function/mod.rs:388-418); the first argument is sum_range.
Sumifs(arguments) ==
    LET Total(v) == IF ~v.ok THEN Panic ELSE Ok(Num(FSum(v.nums)))
        Selected(k) == IF ~k.ok THEN Panic ELSE Total(Kept(Head(arguments), k.keep))
    IN  IF arguments = <<>> THEN Panic
        ELSE Selected(KeepIndex(Tail(arguments), 0, <<>>))

\* countifs (function/mod.rs:420-441)
Countifs(args) ==
    LET Selected(k) == IF ~k.ok THEN Panic ELSE Ok(NumOf(Len(k.keep)))
    IN  Selected(KeepIndex(args, 0, <<>>))

\* averageifs (function/mod.rs:532-556); the first argument is average_range.
Averageifs(arguments) ==
    LET Mean(v) == IF ~v.ok THEN Panic
                   ELSE Ok(Num(FDiv(FSum(v.nums), Fin(Len(v.nums), 1))))
        Selected(k) == IF ~k.ok THEN Panic ELSE Mean(Kept(Head(arguments), k.keep))
    IN  IF arguments = <<>> THEN Panic
        ELSE Selected(KeepIndexAverageifs(Tail(arguments), <<>>))

\* sumif (function/mod.rs:444-470) from the criterion text on: the text is
\* the Display of the criterion, which for a Text is its content
\* (value.rs:111); sum_range is <<>> for None and <<v>> for Some(v).
Sumif(range, criteria_text, sum_range) ==
    LET Total(v) == IF ~v.ok THEN Panic ELSE Ok(Num(FSum(v.nums)))
        Summed(keep_index, summed) ==
            IF summed.tag # "Array" THEN Panic ELSE Total(Kept(summed, keep_index))
        Evals(evals) ==
            IF \E i \in 1..Len(evals) : evals[i].res # "Ok" THEN Panic
            ELSE Summed(SelectSeq(Positions(Len(evals)), LAMBDA i : evals[i].val.flag),
                        IF sum_range = <<>> THEN range ELSE sum_range[1])
    IN  IF range.tag # "Array" THEN Panic
        ELSE Evals([i \in 1..Len(range.elems) |-> ParseCriteria(criteria_text, range.elems[i])])

\* matchfn (function/mod.rs:233-259).  The sorts order the elements by the
\* comparison of Value and keep equal elements in their order; the result
\* is Value::from(position + 1) or Error(NA).
Matchfn(lookup_value, lookup_array, match_type) ==
    LET Le(a, b) == PartialCmp(a, b).ord \in {"Less", "Equal"}
        Ge(a, b) == PartialCmp(a, b).ord \in {"Greater", "Equal"}
        Eq(a, b) == IF IsNum(a) /\ IsNum(b) THEN FCmp(a.num, b.num) = "Equal" ELSE a = b
        RECURSIVE Insert(_, _)
        Insert(sorted, v) ==
            IF sorted = <<>> \/ Le(sorted[Len(sorted)], v) THEN Append(sorted, v)
            ELSE Append(Insert(SubSeq(sorted, 1, Len(sorted) - 1), v), sorted[Len(sorted)])
        RECURSIVE Sort(_)
        Sort(arr) == IF arr = <<>> THEN <<>>
                     ELSE Insert(Sort(SubSeq(arr, 1, Len(arr) - 1)), arr[Len(arr)])
        Last(hits) == IF hits = <<>> THEN Ok(ErrorOf("NA")) ELSE Ok(NumOf(hits[Len(hits)]))
        Found(hits) == IF hits = <<>> THEN Ok(ErrorOf("NA")) ELSE Ok(NumOf(hits[1]))
        Filtered(arr, Keep(_)) == SelectSeq(Positions(Len(arr)), LAMBDA i : Keep(arr[i]))
        Ascending(lookup_array_mut, v) == Last(Filtered(lookup_array_mut, LAMBDA x : Le(x, v)))
        Typed(v, t) ==
            IF t.res # "Ok" THEN Panic
            ELSE IF FCmp(t.val.num, Fin(-1, 1)) = "Equal"
            THEN Last(Filtered(lookup_array.elems, LAMBDA x : Ge(x, v)))
            ELSE IF FCmp(t.val.num, Fin(0, 1)) = "Equal"
            THEN Found(Filtered(lookup_array.elems, LAMBDA x : Eq(x, v)))
            ELSE Ascending(Sort(lookup_array.elems), v)
    IN  IF lookup_array.tag # "Array" THEN Panic
        ELSE Typed(EnsureSingle(lookup_value), AsNum(match_type))

(***************************************************************************)
(* Dates.  Date(day) counts the days from 2004-01-01 (day 0).  Civil gives *)
(* what NaiveDate::year, month, day and ordinal return for it.             *)
(***************************************************************************)
Civil(day) ==
    LET IsLeap(y) == (y % 4 = 0 /\ y % 100 # 0) \/ y % 400 = 0
        DaysIn(y) == IF IsLeap(y) THEN 366 ELSE 365
        MonthLen(y, m) == IF m = 2 THEN (IF IsLeap(y) THEN 29 ELSE 28)
                          ELSE IF m \in {4, 6, 9, 11} THEN 30 ELSE 31
        RECURSIVE YearOf(_, _)
        YearOf(y, rest) == IF rest < DaysIn(y) THEN <<y, rest>>
                           ELSE YearOf(y + 1, rest - DaysIn(y))
        RECURSIVE MonthOf(_, _, _)
        MonthOf(y, m, rest) == IF rest < MonthLen(y, m) THEN <<m, rest + 1>>
                               ELSE MonthOf(y, m + 1, rest - MonthLen(y, m))
        InMonth(yr, md) == [day |-> md[2], year |-> yr[1], month |-> md[1],
                            ordinal |-> yr[2] + 1]
        InYear(yr) == InMonth(yr, MonthOf(yr[1], 1, yr[2]))
    IN  InYear(YearOf(2004, day))

\* datedif (function/mod.rs:629-642): the unit is matched as written, in
\* upper case or in lower case.
Datedif(start_date, end_date, unit) ==
    LET Between(s, e, u) ==
            IF u.res # "Ok" THEN Panic
            ELSE CASE u.val.text \in {<<89>>, <<121>>} -> Ok(NumOf(e.year - s.year))
                   [] u.val.text \in {<<77>>, <<109>>} ->
                         Ok(NumOf((e.year - s.year) * 12 + (e.month - s.month)))
                   [] u.val.text \in {<<68>>, <<100>>} -> Ok(NumOf(end_date.day - start_date.day))
                   [] u.val.text \in {<<77, 68>>, <<109, 100>>} -> Ok(NumOf(e.day - s.day))
                   [] u.val.text \in {<<89, 77>>, <<121, 109>>} -> Ok(NumOf(e.month - s.month))
                   [] u.val.text \in {<<89, 68>>, <<121, 100>>} -> Ok(NumOf(e.ordinal - s.ordinal))
                   [] OTHER -> Panic
    IN  IF ~IsDate(start_date) \/ ~IsDate(end_date) THEN Panic
        ELSE Between(Civil(start_date.day), Civil(end_date.day), AsText(unit))

(***************************************************************************)
(* Functions that compute references.  usize is modelled with the width    *)
(* that makes usize::MAX = UsizeMax: a cast or an unchecked operation      *)
(* wraps modulo UsizeMax + 1.                                              *)
(***************************************************************************)
\* Value::Range { sheet, reference, value } (function/mod.rs:298): sheet
\* and value are <<>> for None and <<x>> for Some(x).
RangeOf(sheet, reference, value) ==
    [sheet |-> sheet, kind |-> "", reference |-> reference, tag |-> "Range", value |-> value]

\* offset_reference (function/mod.rs:66-100); height and width are <<>>
\* for None and <<n>> for Some(n).  r.offset moves the start cell; a Cell
\* is ordered before another by row, then by column.
OffsetReference(r, rows, cols, height, width) ==
    LET AsUsize(x) == x % (UsizeMax + 1)
        Less(a, b) == a[1] < b[1] \/ (a[1] = b[1] /\ a[2] < b[2])
        Moved(row, col) ==
            LET h_u == IF height = <<>> THEN 0 ELSE height[1]
                w_u == IF width = <<>> THEN 0 ELSE width[1]
                h_offset == IF h_u > 0 THEN h_u - 1 ELSE h_u + 1
                w_offset == IF w_u > 0 THEN w_u - 1 ELSE w_u + 1
                Ended(start_cell, end_cell) ==
                    IF Less(end_cell, start_cell)
                    THEN Ok(RefRange(end_cell[1], end_cell[2], start_cell[1], start_cell[2]))
                    ELSE Ok(RefRange(start_cell[1], start_cell[2], end_cell[1], end_cell[2]))
            IN  IF (height # <<>> \/ width # <<>>) /\ (Abs(h_u) > 1 \/ Abs(w_u) > 1)
                THEN Ended(<<row, col>>, <<AsUsize(row + h_offset), AsUsize(col + w_offset)>>)
                ELSE Ok(RefCell(row, col))
    IN  IF r.row + rows < 0 \/ r.col + cols < 0 THEN Panic
        ELSE Moved(r.row + rows, r.col + cols)

\* index (function/mod.rs:279-323) from the evaluated arguments on: array,
\* row_num and, when given, col_num.  checked tells whether the build
\* checks integer overflow: "x as usize - 1" then panics on 0 instead of
\* wrapping.  Reference::from((row, col)) is the cell at row and col.
Index(arg_values, checked) ==
    LET array   == arg_values[1]
        row_num == arg_values[2]
        col_num == IF Len(arg_values) >= 3 THEN arg_values[3] ELSE NumOf(1)
        AsUsize(x) == IF x.c = "fin" THEN (IF x.n < 0 THEN 0 ELSE Min(x.n \div x.d, UsizeMax))
                      ELSE IF x.c = "inf" THEN UsizeMax ELSE 0
        Wrapped(x) == x % (UsizeMax + 1)
        Picked(new_row, new_col, found) ==
            IF found = <<>> THEN Panic
            ELSE Ok(RangeOf(array.sheet, RefCell(new_row, new_col), found))
        At(value, row_idx, col_idx) ==
            IF value = <<>> THEN <<>>
            ELSE IF value[1].tag # "Array2" THEN <<>>
            ELSE IF col_idx >= value[1].cols \/ row_idx * value[1].cols >= Len(value[1].elems)
            THEN <<>>
            ELSE <<value[1].elems[row_idx * value[1].cols + col_idx + 1]>>
        Selected(dim, row, col, row_idx, col_idx) ==
            IF row = Fin(0, 1)
            THEN IF checked /\ dim[2] + col_idx > UsizeMax THEN Panic
                 ELSE Ok(RangeOf(array.sheet, RefCell(0, Wrapped(dim[2] + col_idx)), <<>>))
            ELSE IF col = Fin(0, 1)
            THEN IF checked /\ dim[1] + row_idx > UsizeMax THEN Panic
                 ELSE Ok(RangeOf(array.sheet, RefCell(Wrapped(dim[1] + row_idx), 0), <<>>))
            ELSE IF checked /\ (dim[1] + row_idx > UsizeMax \/ dim[2] + col_idx > UsizeMax)
            THEN Panic
            ELSE Picked(Wrapped(dim[1] + row_idx), Wrapped(dim[2] + col_idx),
                        At(array.value, row_idx, col_idx))
        Indexed(row, col) ==
            IF row.res # "Ok" \/ col.res # "Ok" THEN Panic
            ELSE IF checked /\ (AsUsize(row.val.num) = 0 \/ AsUsize(col.val.num) = 0) THEN Panic
            ELSE IF array.tag # "Range" THEN Panic
            ELSE Selected(GetDimensions(array.reference), row.val.num, col.val.num,
                          Wrapped(AsUsize(row.val.num) - 1), Wrapped(AsUsize(col.val.num) - 1))
    IN  IF Len(arg_values) < 2 THEN Panic
        ELSE IF IsErr(array) THEN Ok(array)
        ELSE IF IsErr(row_num) THEN Ok(row_num)
        ELSE IF IsErr(col_num) THEN Ok(col_num)
        ELSE Indexed(AsNum(row_num), AsNum(col_num))

\* The names get_function_value matches (function/mod.rs:21-57).
Supported ==
    {"SUM", "SUMIF", "AVERAGE", "AVERAGEIF", "COUNT", "EXPONENT", "CONCAT", "AND", "OR",
     "MAX", "MIN", "MATCH", "DATE", "FLOOR", "IFERROR", "EOMONTH", "SUMIFS", "COUNTIFS",
     "AVERAGEIFS", "XIRR", "IF", "XNPV", "YEARFRAC", "DATEDIF", "PMT", "COUNTA",
     "ROUNDDOWN", "ROUNDUP", "SEARCH", "COUNTIF", "MONTH", "YEAR", "SUMPRODUCT"}

\* get_function_value (function/mod.rs:19-60), for the functions modelled
\* and for the names it does not match.
GetFunctionValue(name, args) ==
    CASE name = "SUM"     -> Sum(args)
      [] name = "AVERAGE" -> Average(args)
      [] name = "IFERROR" -> IF Len(args) < 2 THEN Panic ELSE Ok(Iferror(args[1], args[2]))
      [] name = "SUMIF" -> Sumifs(args)
      [] name = "SUMIFS" -> Sumifs(args)
      [] name = "COUNTIFS" -> Countifs(args)
      [] name = "AVERAGEIFS" -> Averageifs(args)
      [] name = "MATCH" -> IF Len(args) # 3 THEN Panic
                           ELSE Matchfn(args[1], args[2], args[3])
      [] name = "DATEDIF" -> IF Len(args) # 3 THEN Panic
                             ELSE Datedif(args[1], args[2], args[3])
      [] name \notin Supported -> FunctionNotSupport(name)

\* The names get_function_value matches in function.rs (6-14).
FunctionRsSupported ==
    {"SUM", "AVERAGE", "COUNT", "EXPONENT", "CONCAT", "AND", "OR", "MAX", "MIN"}

\* get_function_value (function.rs:4-17)
FunctionRsGetFunctionValue(name, args) ==
    CASE name = "SUM"     -> FunctionRsSum(args)
      [] name = "AVERAGE" -> FunctionRsAverage(args)
      [] name \notin FunctionRsSupported -> Panic

(***************************************************************************)
(* Inputs                                                                  *)
(***************************************************************************)
A1 == CellId(0, 0, 0, 1, 1, "None")

A2 == CellId(0, 1, 0, 1, 1, "None")

A3 == CellId(0, 2, 0, 1, 1, "None")

\* A1 again, with its calculated flag set.
A1Calculated == CellId(0, 0, 0, 1, 1, "true")

\* The node of the region A1:A2.
A1A2 == CellId(0, 0, 0, 2, 1, "None")

\* Cells handed to add_cell, add_cell_if_missing and add_precedent.
Cells == <<A1, A2, A3, A1Calculated, A1A2>>

\* Cells that hold the formulas handed to add_formula.
Hosts == <<A1, A2, A3>>

None == <<>>

\* Formula texts with the expression parse_str yields for the text after
\* the leading "=": parsed is <<expr>> for Ok(expr) and <<>> for Err.
Formulas ==
    << [text |-> "=A1",   parsed |-> <<Reference(None, RefCell(0, 0))>>],
       [text |-> "=A2",   parsed |-> <<Reference(None, RefCell(1, 0))>>],
       [text |-> "=A1+1", parsed |-> <<Infix("+", Reference(None, RefCell(0, 0)), Literal)>>],
       [text |-> "=A2+A1",
        parsed |-> <<Infix("+", Reference(None, RefCell(1, 0)), Reference(None, RefCell(0, 0)))>>],
       [text |-> "=-A2",  parsed |-> <<Prefix("-", Reference(None, RefCell(1, 0)))>>],
       [text |-> "=SUM(A1:A2)",
        parsed |-> <<Func("SUM", <<Reference(None, RefRange(0, 0, 1, 0))>>)>>],
       [text |-> "=SUM(A:A)",
        parsed |-> <<Func("SUM", <<Reference(None, RefVRange(0))>>)>>],
       [text |-> "=SUM(A3:A4)",
        parsed |-> <<Func("SUM", <<Reference(None, RefRange(2, 0, 3, 0))>>)>>],
       [text |-> "=OFFSET(A1,1,0)",
        parsed |-> <<Func("OFFSET", <<Reference(None, RefCell(0, 0)), Literal, Literal>>)>>],
       [text |-> "=SUM(1,OFFSET(A2,0,0))",
        parsed |-> <<Func("SUM", <<Literal,
                        Func("OFFSET", <<Reference(None, RefCell(1, 0)), Literal, Literal>>)>>)>>],
       [text |-> "=INDIRECT(\"A1\")",
        parsed |-> <<Func("INDIRECT", <<Literal>>)>>],
       [text |-> "={A2,1}",
        parsed |-> <<Array(<<Reference(None, RefCell(1, 0)), Literal>>)>>],
       [text |-> "=Sheet2!B1",
        parsed |-> <<Reference(<<"Sheet2">>, RefCell(0, 1))>>],
       [text |-> "=A1+Sheet9!A1",
        parsed |-> <<Infix("+", Reference(None, RefCell(0, 0)),
                               Reference(<<"Sheet9">>, RefCell(0, 0)))>>],
       [text |-> "=1",    parsed |-> <<Literal>>],
       [text |-> "=A1+",  parsed |-> <<>>] >>

\* parse_str
ParseStr(formula) == formula.parsed

(***************************************************************************)
(* What a formula asks for, read off the expression tree alone.            *)
(***************************************************************************)
\* The Reference sub-expressions of an expression, at any depth.
RECURSIVE Refs(_)
Refs(expression) ==
    IF expression.type = "Reference" THEN {expression}
    ELSE UNION {Refs(expression.args[k]) : k \in 1..Len(expression.args)}

\* The sheet index a reference of a formula in cell resolves to.
SheetIdOf(r, cell) == IF r.sheet # None THEN SheetPosition(r.sheet[1]) ELSE cell.sheet

\* The CellId of the region a reference of a formula in cell refers to.
RefCellId(r, cell) == PreCell(SheetIdOf(r, cell), r.reference)

\* The names of the functions called in an expression, at any depth.
RECURSIVE CalledFunctions(_)
CalledFunctions(expression) ==
    (IF expression.type = "Func" THEN {expression.name} ELSE {})
    \cup UNION {CalledFunctions(expression.args[k]) : k \in 1..Len(expression.args)}

\* The volatile functions of the specification.
Volatile == {"OFFSET", "INDIRECT"}

HasVolatile(expression) == CalledFunctions(expression) \cap Volatile # {}

\* The precedent -> dependent pairs a formula in cell declares.
Declares(expression, cell) == {<<RefCellId(r, cell), cell>> : r \in Refs(expression)}

(***************************************************************************)
(* State.  nodes, edges, offsets: the DependencyTree.  status: "running",  *)
(* or "panicked" once a call has panicked.  calls: mutating calls made.    *)
(* last: the last call, its arguments and its outcome; rep tells that the  *)
(* call before it was the same call.  declared: the precedent -> dependent *)
(* pairs that the calls completed so far were asked to register.           *)
(* eval: the last evaluation of the value domain or the function library:  *)
(* the function, its arguments, its outcome and the file it is from.       *)
(* book: the workbook of a calculation pass; NoBook when none is loaded.    *)
(***************************************************************************)
Idle == [args |-> <<>>, fn |-> "none", out |-> Ok(Empty), lib |-> ""]

NoBook == [phase |-> "none"]

Tree == [nodes |-> nodes, edges |-> edges, offsets |-> offsets, panicked |-> FALSE]

Call(op, p, d, f, res) ==
    [op |-> op, p |-> p, d |-> d, f |-> f, res |-> res, order |-> <<>>, n |-> calls + 1,
     rep |-> last.op = op /\ last.p = p /\ last.d = d /\ last.f = f]

\* DependencyTree::new (dependency.rs:77-79)
Init ==
    /\ nodes = <<>>
    /\ edges = <<>>
    /\ offsets = <<>>
    /\ status = "running"
    /\ calls = 0
    /\ last = [op |-> "new", p |-> A1, d |-> A1, f |-> 0, res |-> "Ok", order |-> <<>>,
               n |-> 0, rep |-> FALSE]
    /\ declared = {}
    /\ eval = Idle
    /\ book = NoBook

Store(t) ==
    /\ nodes' = t.nodes
    /\ edges' = t.edges
    /\ offsets' = t.offsets
    /\ status' = IF t.panicked THEN "panicked" ELSE "running"
    /\ calls' = calls + 1
    /\ eval' = eval
    /\ book' = book

CanCall == status = "running" /\ calls < MaxCalls

\* add_formula (dependency.rs:81-87)
AddFormula(cell, f) ==
    /\ CanCall
    /\ LET expression == ParseStr(Formulas[f])
       IN  IF expression = <<>>
           THEN /\ Store(Tree)
                /\ last' = Call("add_formula", cell, cell, f, "ParseError")
                /\ UNCHANGED declared
           ELSE LET t == AddExpression(Tree, cell, expression[1])
                IN  /\ Store(t)
                    /\ last' = Call("add_formula", cell, cell, f,
                                    IF t.panicked THEN "Panic" ELSE "Ok")
                    /\ declared' = IF t.panicked THEN declared
                                   ELSE declared \cup Declares(expression[1], cell)

\* add_cell (dependency.rs:144-146)
DoAddCell(cell) ==
    /\ CanCall
    /\ Store(AddCell(Tree, cell))
    /\ last' = Call("add_cell", cell, cell, 0, "Ok")
    /\ UNCHANGED declared

\* add_cell_if_missing (dependency.rs:152-156)
DoAddCellIfMissing(cell) ==
    /\ CanCall
    /\ Store(AddCellIfMissing(Tree, cell))
    /\ last' = Call("add_cell_if_missing", cell, cell, 0, "Ok")
    /\ UNCHANGED declared

\* add_precedent (dependency.rs:158-164)
DoAddPrecedent(precedent, cell) ==
    /\ CanCall
    /\ Store(AddPrecedent(Tree, precedent, cell))
    /\ last' = Call("add_precedent", precedent, cell, 0, "Ok")
    /\ declared' = declared \cup {<<precedent, cell>>}

\* get_order (dependency.rs:174-182): the order, or a panic on a cycle.
GetOrder ==
    /\ status = "running"
    /\ last.op # "get_order"
    /\ LET r == Toposort(nodes, edges)
       IN  /\ status' = IF r.ok THEN "running" ELSE "panicked"
           /\ last' = [op |-> "get_order", p |-> A1, d |-> A1, f |-> 0,
                       res |-> IF r.ok THEN "Ok" ELSE "Panic",
                       order |-> r.order, n |-> calls, rep |-> FALSE]
    /\ UNCHANGED <<nodes, edges, offsets, calls, declared, eval, book>>

Next ==
    \/ \E i \in 1..Len(Hosts), f \in 1..Len(Formulas) : AddFormula(Hosts[i], f)
    \/ \E i \in 1..Len(Cells) : DoAddCell(Cells[i])
    \/ \E i \in 1..Len(Cells) : DoAddCellIfMissing(Cells[i])
    \/ \E i, j \in 1..Len(Cells) : DoAddPrecedent(Cells[i], Cells[j])
    \/ GetOrder

Spec == Init /\ [][Next]_vars

(***************************************************************************)
(* Properties                                                              *)
(***************************************************************************)
\* A relation (set of <<from, to>> pairs) is acyclic when every non-empty
\* set of its end points has a member with no predecessor inside the set.
EndPoints(rel) == {e[1] : e \in rel} \cup {e[2] : e \in rel}

Acyclic(rel) ==
    \A S \in SUBSET EndPoints(rel) :
        S # {} => \E n \in S : \A m \in S : <<m, n>> \notin rel

\* The position of a cell in an order (0 when absent).
PosIn(order, c) == IF InSeq(c, order) THEN CHOOSE i \in 1..Len(order) : order[i] = c ELSE 0

LastExpr == ParseStr(Formulas[last.f])[1]

FormulaRegistered == last.op = "add_formula" /\ last.res = "Ok"

\* C1: on an acyclic graph get_order returns an order that holds every node
\* of the graph exactly once and places the precedent of every edge before
\* its dependent.
OrderIsTopological ==
    (last.op = "get_order" /\ Acyclic(Range(edges))) =>
        /\ last.res = "Ok"
        /\ Len(last.order) = Len(nodes)
        /\ Range(last.order) = Range(nodes)
        /\ \A k \in 1..Len(edges) :
              PosIn(last.order, edges[k][1]) < PosIn(last.order, edges[k][2])

\* C1 witness: an order was returned for a graph with a chain P -> Q -> D.
OrderOfChain ==
    /\ last.op = "get_order"
    /\ last.res = "Ok"
    /\ \E j, k \in 1..Len(edges) : edges[j][2] = edges[k][1]

\* C2: when the dependencies registered so far contain a cycle, requesting
\* the order does not yield an order.
CycleNeverOrdered ==
    (last.op = "get_order" /\ ~Acyclic(declared)) => last.res # "Ok"

\* C3: after a successful add_formula the graph has an edge from the CellId
\* of every reference of the formula to the host cell.
ReferencesArePrecedents ==
    FormulaRegistered =>
        \A r \in Refs(LastExpr) : IsPrecedentOf(Tree, RefCellId(r, last.p), last.p)

RangeHasSubCellEdges ==
    FormulaRegistered =>
        \A r \in Refs(LastExpr) :
            IsMultiCell(r.reference) =>
                LET pre == RefCellId(r, last.p)
                    cs  == GetCellsFromDim(pre.row, pre.column, pre.num_row, pre.num_col)
                IN  /\ CellExists(Tree, pre)
                    /\ \A k \in 1..Len(cs) :
                          LET sub == CellIdFrom5(pre.sheet, cs[k][1], cs[k][2], 1, 1)
                          IN  sub # pre => IsPrecedentOf(Tree, sub, pre)

\* C6: CellIds with the same positional fields are the same node: the graph
\* never holds two nodes that differ only in calculated.
OneNodePerPosition ==
    \A j, k \in 1..Len(nodes) :
        Position(nodes[j]) = Position(nodes[k]) => j = k

\* C7: after add_cell_if_missing(c), c is a node of the graph.
MissingCellInserted ==
    last.op = "add_cell_if_missing" => CellExists(Tree, last.p)

\* C8: a successful add_formula appends the host cell to offsets when the
\* formula calls a volatile function (OFFSET, INDIRECT) at any depth, and
\* leaves offsets unchanged otherwise.
VolatileHostsQueued ==
    [][(calls' = calls + 1 /\ last'.op = "add_formula" /\ last'.res = "Ok") =>
          IF HasVolatile(ParseStr(Formulas[last'.f])[1])
          THEN /\ Len(offsets') > Len(offsets)
               /\ SubSeq(offsets', 1, Len(offsets)) = offsets
               /\ \A k \in (Len(offsets) + 1)..Len(offsets') : offsets'[k] = last'.p
          ELSE offsets' = offsets]_vars

\* C9: the precedent CellId of every reference of a registered formula
\* lies within its sheet: row + height <= max_rows and
\* column + width <= max_columns.
PrecedentWithinSheet ==
    FormulaRegistered =>
        \A r \in Refs(LastExpr) :
            LET pre == RefCellId(r, last.p)
            IN  /\ CellExists(Tree, pre)
                /\ pre.row + pre.num_row <= SheetAt(pre.sheet).max_rows
                /\ pre.column + pre.num_col <= SheetAt(pre.sheet).max_columns

\* C10: right after add_precedent(p, d) with p # d the edge p -> d is
\* recorded, seen by is_precedent_of(p, d) and by is_dependent_of(d, p);
\* and is_precedent_of(x, y) always equals is_dependent_of(y, x).
PrecedentRecorded ==
    /\ (last.op = "add_precedent" /\ last.p # last.d) =>
           (IsPrecedentOf(Tree, last.p, last.d) /\ IsDependentOf(Tree, last.d, last.p))
    /\ \A j, k \in 1..Len(Cells) :
           IsPrecedentOf(Tree, Cells[j], Cells[k]) = IsDependentOf(Tree, Cells[k], Cells[j])

\* C28: the graph never holds both the edge a -> b and the edge b -> a for
\* two distinct cells: is_dependent_of(a, b) and is_dependent_of(b, a) are
\* never both true.
NoMutualEdges ==
    /\ \A j, k \in 1..Len(edges) :
           edges[j][1] # edges[j][2] => edges[k] # <<edges[j][2], edges[j][1]>>
    /\ \A j, k \in 1..Len(Cells) :
           Cells[j] # Cells[k] =>
               ~(IsDependentOf(Tree, Cells[j], Cells[k]) /\ IsDependentOf(Tree, Cells[k], Cells[j]))

\* C28 witness: add_precedent(p, d) was called for distinct cells while the
\* edge d -> p was in the graph, and the edge p -> d was not stored.
ReverseEdgeRefused ==
    /\ last.op = "add_precedent"
    /\ last.p # last.d
    /\ IsDependentOf(Tree, last.p, last.d)
    /\ ~IsDependentOf(Tree, last.d, last.p)

\* C29: an add_formula call that does not complete successfully leaves the
\* nodes, the edges and the offsets worklist as they were before the call.
FailedFormulaLeavesNoTrace ==
    [][(calls' = calls + 1 /\ last'.op = "add_formula" /\ last'.res # "Ok")
          => (nodes' = nodes /\ edges' = edges /\ offsets' = offsets)]_vars

(***************************************************************************)
(* Evaluation of values: inputs                                            *)
(***************************************************************************)
\* The texts "7", "abc", "a" and "b".
T7 == <<55>>

Tabc == <<97, 98, 99>>

Ta == <<97>>

Tb == <<98>>

\* The array literals {1,2;3,4} and {1,"2",TRUE,4}.
Square == Array2Of(2, <<NumOf(1), NumOf(2), NumOf(3), NumOf(4)>>)

Mixed == ArrayOf(<<NumOf(1), Text(<<50>>), Bool(TRUE), NumOf(4)>>)

\* The operands handed to the operators, to as_num and to the comparison;
\* among them the texts "-1.5", "ab" and "", and the 1x1 array {3}.
Operands ==
    << NumOf(0), NumOf(1), NumOf(-2), Num(Fin(1, 2)), Num(NaN),
       Bool(FALSE), Bool(TRUE),
       Text(T7), Text(<<45, 49, 46, 53>>), Text(Tabc), Text(<<97, 98>>), Text(<<>>),
       Date(1), Date(2),
       ArrayOf(<<NumOf(1), NumOf(2)>>), Array2Of(1, <<NumOf(3)>>), Square,
       Array2Of(2, <<Text(Tabc), NumOf(2)>>),
       ErrorOf("Div"), ErrorOf("NA"), Empty >>

\* The longest argument list made of any values.
MaxArgs == 2

\* The argument lists of the tests of SUM (function/mod.rs:841-848):
\* {1,2;3,4}; {1,2,3,4,5}, 6, "7"; {1,"2",TRUE,4}.
SumExamples ==
    << <<Square>>,
       <<ArrayOf(<<NumOf(1), NumOf(2), NumOf(3), NumOf(4), NumOf(5)>>), NumOf(6), Text(T7)>>,
       <<Mixed>> >>

\* The function names looked up: functions modelled, and a name that no
\* registry knows.
FunctionNames ==
    {"SUM", "AVERAGE", "IFERROR", "SUMIF", "SUMIFS", "COUNTIFS", "AVERAGEIFS", "DATEDIF",
     "MATCH", "FOO"}

\* The range {1,3} summed or averaged, the criteria ranges {"a","a"},
\* {"a","b"} and {"b","a"}, and the criteria "a" and "<>a" of the *IFS
\* functions.
Amounts == ArrayOf(<<NumOf(1), NumOf(3)>>)

CriteriaRanges ==
    {ArrayOf(<<Text(Ta), Text(Ta)>>), ArrayOf(<<Text(Ta), Text(Tb)>>),
     ArrayOf(<<Text(Tb), Text(Ta)>>)}

Criteria == {Text(Ta), Text(<<60, 62, 97>>)}

\* The most (criteria_range, criterion) pairs in an argument list.
MaxPairs == 2

\* The lists of n (criteria_range, criterion) pairs.
RECURSIVE PairLists(_)
PairLists(n) ==
    IF n = 0 THEN {<<>>}
    ELSE {<<r, c>> \o rest : r \in CriteriaRanges, c \in Criteria, rest \in PairLists(n - 1)}

\* The range B2:C3 holding {1,2;3,4}.
Table == RangeOf(None, RefRange(1, 1, 2, 2), <<Square>>)

\* The longest lookup array handed to MATCH.
MaxLookup == 3

\* The argument lists an evaluation is started with: one or two operands;
\* up to MaxArgs values; the lists of the tests of SUM; a criterion among
\* "a", "b", "<>a", "<=a", "<a", ">=a", ">a", "=a", "a=b", "=\"a\"" with a
\* cell among "a", "b", "ab", "a=b", 1; and up to MaxPairs pairs of a
\* criteria range and a criterion, alone and after the range {1,3}; a
\* criteria range, a criterion and the range {1,3}; {"7","1"} and "7"; a
\* lookup value among 1, 2, a lookup array of up to MaxLookup numbers among
\* 1, 2, 3 and a match type among -1, 0, 1; 3, {1,2,3,4,5} and 0; the cell
\* B2 with a row shift, a column shift, a height and a width (Empty when
\* omitted); the range B2:C3 or an error with a row and a column; two
\* dates among 2004-02-10, 2006-03-01 and 2020-03-10 with a unit among Y, M,
\* D, MD, YM, YD in every mix of upper and lower case, or the unit X.
Inputs ==
    {<<Operands[j]>> : j \in 1..Len(Operands)}
    \cup {<<Operands[j], Operands[k]>> : j, k \in 1..Len(Operands)}
    \cup UNION {[1..n -> {NumOf(1), Text(T7), Bool(TRUE), Mixed, Square}] : n \in 0..MaxArgs}
    \cup Range(SumExamples)
    \cup {<<Text(c), cell>> :
            c \in {Ta, Tb, <<60, 62, 97>>, <<60, 61, 97>>, <<60, 97>>, <<62, 61, 97>>,
                   <<62, 97>>, <<61, 97>>, <<97, 61, 98>>, <<61, 34, 97, 34>>},
            cell \in {Text(Ta), Text(Tb), Text(<<97, 98>>), Text(<<97, 61, 98>>), NumOf(1)}}
    \cup UNION {PairLists(n) : n \in 1..MaxPairs}
    \cup UNION {{<<Amounts>> \o pairs : pairs \in PairLists(n)} : n \in 1..MaxPairs}
    \cup {<<r, c, Amounts>> : r \in CriteriaRanges, c \in Criteria}
    \cup {<<ArrayOf(<<Text(T7), Text(<<49>>)>>), Text(T7)>>}
    \cup {<<NumOf(v), ArrayOf(arr), NumOf(t)>> :
            v \in {1, 2}, t \in {-1, 0, 1},
            arr \in UNION {[1..n -> {NumOf(1), NumOf(2), NumOf(3)}] : n \in 0..MaxLookup}}
    \cup {<<NumOf(3), ArrayOf(<<NumOf(1), NumOf(2), NumOf(3), NumOf(4), NumOf(5)>>), NumOf(0)>>}
    \cup {<<RangeOf(None, RefCell(1, 1), <<>>), NumOf(rows), NumOf(cols), height, width>> :
            rows \in {-2, 0, 1}, cols \in {-2, 0, 1},
            height \in {Empty, NumOf(-2), NumOf(1), NumOf(2), NumOf(3)},
            width \in {Empty, NumOf(-2), NumOf(1), NumOf(2), NumOf(3)}}
    \cup {<<Table, NumOf(row_num)>> : row_num \in {0, 1, 2}}
    \cup {<<Table, NumOf(row_num), NumOf(col_num)>> : row_num \in {0, 1, 2}, col_num \in {0, 1, 2}}
    \cup {<<ErrorOf("Div"), NumOf(1), NumOf(1)>>, <<ErrorOf("Div"), ErrorOf("NA"), NumOf(1)>>,
          <<Table, ErrorOf("NA"), NumOf(1)>>, <<Table, ErrorOf("NA"), ErrorOf("Div")>>,
          <<Table, NumOf(1), ErrorOf("Div")>>}
    \cup {<<Date(s), Date(e), Text(u)>> :
            s \in {40, 790, 5913}, e \in {40, 790, 5913},
            u \in {<<c>> : c \in {89, 121, 77, 109, 68, 100, 88}}
                  \cup {<<a, b>> : a \in {77, 109}, b \in {68, 100}}
                  \cup {<<a, b>> : a \in {89, 121}, b \in {77, 109, 68, 100}}}

(***************************************************************************)
(* Evaluation of values.  The initial state holds an argument list; each   *)
(* action applies one operation to it and records the operation and its    *)
(* outcome.  The dependency graph is not touched.                          *)
(***************************************************************************)
InitEval ==
    /\ nodes = <<>>
    /\ edges = <<>>
    /\ offsets = <<>>
    /\ status = "running"
    /\ calls = 0
    /\ last = [op |-> "new", p |-> A1, d |-> A1, f |-> 0, res |-> "Ok", order |-> <<>>,
               n |-> 0, rep |-> FALSE]
    /\ declared = {}
    /\ \E args \in Inputs : eval = [Idle EXCEPT !.args = args]
    /\ book = NoBook

Evaluated(lib, fn, out) ==
    /\ eval' = [args |-> eval.args, fn |-> fn, out |-> out, lib |-> lib]
    /\ UNCHANGED <<nodes, edges, offsets, status, calls, last, declared, book>>

EvalAdd ==
    /\ eval.fn = "none" /\ Len(eval.args) = 2
    /\ Evaluated("value.rs", "add", Add(eval.args[1], eval.args[2]))

EvalSub ==
    /\ eval.fn = "none" /\ Len(eval.args) = 2
    /\ Evaluated("value.rs", "sub", Sub(eval.args[1], eval.args[2]))

EvalMul ==
    /\ eval.fn = "none" /\ Len(eval.args) = 2
    /\ Evaluated("value.rs", "mul", Mul(eval.args[1], eval.args[2]))

EvalDiv ==
    /\ eval.fn = "none" /\ Len(eval.args) = 2
    /\ Evaluated("value.rs", "div", Div(eval.args[1], eval.args[2]))

EvalNeg ==
    /\ eval.fn = "none" /\ Len(eval.args) = 1
    /\ Evaluated("value.rs", "neg", Neg(eval.args[1]))

EvalAsNum ==
    /\ eval.fn = "none" /\ Len(eval.args) = 1
    /\ Evaluated("value.rs", "as_num", AsNum(eval.args[1]))

EvalPartialCmp ==
    /\ eval.fn = "none" /\ Len(eval.args) = 2
    /\ Evaluated("value.rs", "partial_cmp", PartialCmp(eval.args[1], eval.args[2]))

\* parse_criteria takes a string and a cell.
EvalParseCriteria ==
    /\ eval.fn = "none" /\ Len(eval.args) = 2
    /\ IsText(eval.args[1])
    /\ Evaluated("function/mod.rs", "parse_criteria",
                 ParseCriteria(eval.args[1].text, eval.args[2]))

EvalGetFunctionValue ==
    /\ eval.fn = "none"
    /\ \E name \in FunctionNames :
           Evaluated("function/mod.rs", name, GetFunctionValue(name, eval.args))

EvalFunctionRsGetFunctionValue ==
    /\ eval.fn = "none"
    /\ \E name \in FunctionNames :
           Evaluated("function.rs", name, FunctionRsGetFunctionValue(name, eval.args))

\* offset_reference on a reference, two shifts and an optional height and
\* width, as offset hands them over (function/mod.rs:328-338).
EvalOffsetReference ==
    /\ eval.fn = "none" /\ Len(eval.args) = 5
    /\ eval.args[1].tag = "Range"
    /\ LET Opt(v) == IF IsNum(v) THEN <<v.num.n>> ELSE <<>>
       IN  Evaluated("function/mod.rs", "offset_reference",
                     OffsetReference(eval.args[1].reference, eval.args[2].num.n,
                                     eval.args[3].num.n, Opt(eval.args[4]), Opt(eval.args[5])))

\* index on evaluated arguments, in a build with and in a build without
\* overflow checks.
EvalIndex ==
    /\ eval.fn = "none" /\ Len(eval.args) \in {2, 3}
    /\ \E checked \in BOOLEAN :
           Evaluated("function/mod.rs", "INDEX", Index(eval.args, checked))

NextEval ==
    \/ EvalAdd
    \/ EvalSub
    \/ EvalMul
    \/ EvalDiv
    \/ EvalNeg
    \/ EvalAsNum
    \/ EvalPartialCmp
    \/ EvalParseCriteria
    \/ EvalGetFunctionValue
    \/ EvalFunctionRsGetFunctionValue
    \/ EvalOffsetReference
    \/ EvalIndex

SpecEval == InitEval /\ [][NextEval]_vars

(***************************************************************************)
(* OFFSET and the calculation pass.                                        *)
(*                                                                         *)
(* The workbook has one column of NumRows cells on Sheet1, A1 downwards.   *)
(* A cell holds a number or one of the formulas OFFSET(A<b>, rows, 0),     *)
(* OFFSET(Sheet1!A<b>, rows, 0) and OFFSET(#N/A, 0, 0).  book is           *)
(*   cells     what the cells hold, by row;                                *)
(*   values    the sheet store, by row: the raw value, replaced by the     *)
(*             computed value once the cell is calculated;                 *)
(*   phase     "wired", "running", "done", or the failure that ended the   *)
(*             pass: "CyclicDependency", "UnstableVolatile", "Panic";      *)
(*   queue     the cells still to evaluate, in order;                      *)
(*   pending   <<new_expr>> between a Volatile(new_expr) signal and its    *)
(*             handling, <<>> otherwise;                                   *)
(*   replanned the cells replanned in this pass;                           *)
(*   failed    <<cell>> of UnstableVolatile(cell);                         *)
(*   signals, replans   per row, the Volatile signals raised by the cell   *)
(*             and the replans made for it in this pass.                   *)
(* The orchestrator, the evaluator and the sheet store are described in    *)
(* the specification (4.8, 3); OFFSET is function/mod.rs:325-356.          *)
(***************************************************************************)
NumRows == 3

Const == [sheet |-> None, kind |-> "const", rows |-> 0, base |-> 0]

OffsetOf(sheet, base, rows) == [sheet |-> sheet, kind |-> "offset", rows |-> rows, base |-> base]

OffsetOfError == [sheet |-> None, kind |-> "offset_err", rows |-> 0, base |-> 0]

\* What a cell may hold.
Contents ==
    {Const, OffsetOfError}
    \cup {OffsetOf(None, b, k) : b \in 0..(NumRows - 1), k \in {-1, 0, 1}}
    \cup {OffsetOf(<<"Sheet1">>, b, 1) : b \in 0..(NumRows - 1)}

\* The expression of a formula cell, as parse_str yields it.
ExprOf(content) ==
    IF content.kind = "offset"
    THEN Func("OFFSET", <<Reference(content.sheet, RefCell(content.base, 0)), Literal, Literal>>)
    ELSE Func("OFFSET", <<Literal, Literal, Literal>>)

\* The raw value of a cell: the number of a constant, Formula(text) for a
\* formula.
RawValue(content, row) ==
    IF content.kind = "const" THEN NumOf(5 + row) ELSE Variant("Formula")

\* The CellId of the cell of a row.
HostOf(row) == CellIdFrom5(0, row, 0, 1, 1)

\* The value the sheet store holds for the cell a reference expression
\* names; a cell outside the data is Empty.
StoredValue(b, expr) ==
    LET row == expr.reference.row
    IN  IF expr.reference.col = 0 /\ row < Len(b.values)
           /\ (expr.sheet = None \/ SheetPosition(expr.sheet[1]) = 0)
        THEN b.values[row + 1]
        ELSE Empty

\* book.is_calculated(expr): the cell holds a value, not a formula still to
\* be evaluated.
IsCalculated(b, expr) == StoredValue(b, expr).tag # "Formula"

\* Err(Error::Volatile(Box::new(new_expr)))
VolatileSignal(new_expr) == [name |-> "", res |-> "Volatile", val |-> new_expr, ord |-> ""]

\* offset returning the Range whether or not the target is calculated.
OffsetOutcomeEager(calculated, sheet, new_reference, reference_value) ==
    Ok(RangeOf(sheet, new_reference, <<reference_value>>))

\* The end of offset (function/mod.rs:339-349)
OffsetOutcome(calculated, sheet, new_reference, reference_value) ==
    IF calculated
    THEN Ok(RangeOf(sheet, new_reference, <<reference_value>>))
    ELSE VolatileSignal(Reference(sheet, new_reference))

\* offset (function/mod.rs:325-356) from the evaluated arguments on: the
\* subject, rows, cols and, when given, height and width.
Offset(arg_values, b) ==
    LET array == arg_values[1]
        AsI32(v) == v.num.n \div v.num.d
        Opt(k) == IF Len(arg_values) >= k THEN <<AsI32(arg_values[k])>> ELSE <<>>
        Resolved(r) ==
            IF r.res # "Ok" THEN Panic
            ELSE OffsetOutcome(IsCalculated(b, Reference(array.sheet, r.val)),
                               array.sheet, r.val,
                               StoredValue(b, Reference(array.sheet, r.val)))
    IN  IF array.tag = "Range"
        THEN Resolved(OffsetReference(array.reference, AsI32(arg_values[2]),
                                      AsI32(arg_values[3]), Opt(4), Opt(5)))
        ELSE IF IsErr(array) THEN Ok(array)
        ELSE Panic

\* ensure_non_range: the value a Range carries, any other value itself.
EnsureNonRange(v) ==
    IF v.tag = "Range" THEN (IF v.value = <<>> THEN Empty ELSE v.value[1]) ELSE v

\* The evaluated arguments of the OFFSET call of a cell.
ArgValues(content) ==
    IF content.kind = "offset"
    THEN <<RangeOf(content.sheet, RefCell(content.base, 0), <<>>), NumOf(content.rows), NumOf(0)>>
    ELSE <<ErrorOf("NA"), NumOf(0), NumOf(0)>>

\* Wire (4.8, phase 2): for each formula cell, by row, create its node and
\* register its precedents with add_expression.
RECURSIVE Wire(_, _, _)
Wire(t, cells, row) ==
    IF row >= Len(cells) THEN t
    ELSE IF cells[row + 1].kind = "const" THEN Wire(t, cells, row + 1)
    ELSE Wire(AddExpression(AddCell(t, HostOf(row)), HostOf(row), ExprOf(cells[row + 1])),
              cells, row + 1)

\* The workbook after Load.
Loaded(cells) ==
    [phase |-> "wired",
     values |-> [k \in 1..Len(cells) |-> RawValue(cells[k], k - 1)],
     cells |-> cells,
     queue |-> <<>>,
     pending |-> <<>>,
     replanned |-> {},
     failed |-> <<>>,
     signals |-> [k \in 1..Len(cells) |-> 0],
     replans |-> [k \in 1..Len(cells) |-> 0]]

\* The nodes reachable from the nodes of S along the edges es.
RECURSIVE Reachable(_, _)
Reachable(es, S) ==
    LET more == S \cup {es[k][2] : k \in {j \in 1..Len(es) : es[j][1] \in S}}
    IN  IF more = S THEN S ELSE Reachable(es, more)

\* The cell has had its replan in this pass, with no limit kept.
NeverReplanned(b, cell) == FALSE

\* The cell has had its replan in this pass.
Replanned(b, cell) == cell \in b.replanned

\* The queue after a replan: the recomputed order of the subgraph
\* reachable from the mutated node, then what was left of the queue.
Redrive(order, es, mutated, queue) ==
    LET Queued(reach) ==
            SelectSeq(order, LAMBDA c : c \in reach)
            \o SelectSeq(queue, LAMBDA c : c \notin reach)
    IN  Queued(Reachable(es, {mutated}))

InitCalc ==
    /\ \E cells \in [1..NumRows -> Contents] :
          LET Wired(t) ==
                  /\ nodes = t.nodes
                  /\ edges = t.edges
                  /\ offsets = t.offsets
          IN  /\ book = Loaded(cells)
              /\ Wired(Wire([nodes |-> <<>>, edges |-> <<>>, offsets |-> <<>>,
                             panicked |-> FALSE], cells, 0))
    /\ status = "running"
    /\ calls = 0
    /\ last = [op |-> "new", p |-> A1, d |-> A1, f |-> 0, res |-> "Ok", order |-> <<>>,
               n |-> 0, rep |-> FALSE]
    /\ declared = {}
    /\ eval = Idle

\* Calculate (4.8, phase 3): request the order.
StartCalculate ==
    /\ book.phase = "wired"
    /\ LET Started(r) ==
               IF r.ok THEN [book EXCEPT !.phase = "running", !.queue = r.order]
               ELSE [book EXCEPT !.phase = "CyclicDependency"]
       IN  book' = Started(Toposort(nodes, edges))
    /\ UNCHANGED <<nodes, edges, offsets, status, calls, last, declared, eval>>

\* Evaluate the next cell of the order and write its value to the sheet; a
\* cell that holds a value already is passed over.
EvaluateNext ==
    /\ book.phase = "running"
    /\ book.pending = <<>>
    /\ book.queue # <<>>
    /\ LET row == Head(book.queue).row
           Written(out) ==
               CASE out.res = "Ok" ->
                      [book EXCEPT !.values[row + 1] = EnsureNonRange(out.val),
                                   !.queue = Tail(@)]
                 [] out.res = "Volatile" ->
                      [book EXCEPT !.pending = <<out.val>>, !.signals[row + 1] = @ + 1]
                 [] OTHER -> [book EXCEPT !.phase = "Panic"]
           Called(args, out) ==
               /\ eval' = [args |-> args, fn |-> "OFFSET", out |-> out, lib |-> "function/mod.rs"]
               /\ book' = Written(out)
       IN  IF row >= Len(book.cells) \/ book.values[row + 1].tag # "Formula"
           THEN /\ book' = [book EXCEPT !.queue = Tail(@)]
                /\ eval' = eval
           ELSE Called(ArgValues(book.cells[row + 1]),
                       Offset(ArgValues(book.cells[row + 1]), book))
    /\ UNCHANGED <<nodes, edges, offsets, status, calls, last, declared>>

\* The orchestrator's handling of Volatile(new_expr) raised by the cell at
\* the head of the queue: UnstableVolatile when the cell was replanned
\* before in this pass; otherwise the precedents of new_expr are added for
\* the cell, the order is recomputed and evaluation is driven again.
Replan ==
    /\ book.phase = "running"
    /\ book.pending # <<>>
    /\ LET cell == Head(book.queue)
           new_expr == book.pending[1]
           Marked == [book EXCEPT !.pending = <<>>,
                                  !.replanned = @ \cup {cell},
                                  !.replans[cell.row + 1] = @ + 1]
           Ordered(t, r) ==
               /\ nodes' = t.nodes
               /\ edges' = t.edges
               /\ offsets' = t.offsets
               /\ book' = IF r.ok
                          THEN [Marked EXCEPT !.queue =
                                   Redrive(r.order, t.edges,
                                           RefCellId(new_expr, cell), book.queue)]
                          ELSE [Marked EXCEPT !.phase = "CyclicDependency"]
           Rewired(t) == Ordered(t, Toposort(t.nodes, t.edges))
       IN  IF Replanned(book, cell)
           THEN /\ book' = [book EXCEPT !.pending = <<>>, !.phase = "UnstableVolatile",
                                        !.failed = <<cell>>]
                /\ UNCHANGED <<nodes, edges, offsets>>
           ELSE Rewired(AddExpression(Tree, cell, new_expr))
    /\ UNCHANGED <<status, calls, last, declared, eval>>

\* The pass ends when the order is exhausted.
Finish ==
    /\ book.phase = "running"
    /\ book.pending = <<>>
    /\ book.queue = <<>>
    /\ book' = [book EXCEPT !.phase = "done"]
    /\ UNCHANGED <<nodes, edges, offsets, status, calls, last, declared, eval>>

NextCalc ==
    \/ StartCalculate
    \/ EvaluateNext
    \/ Replan
    \/ Finish

SpecCalc == InitCalc /\ [][NextCalc]_vars

(***************************************************************************)
(* Properties of the value domain                                          *)
(***************************************************************************)
\* C11: for each of +, -, *, / and unary -, when an operand is Error(k) the
\* operation returns the value Error(k) of one of its error operands: it
\* neither aborts nor returns a non-error value.
ErrorsPropagate ==
    LET errors == {k \in 1..Len(eval.args) : IsErr(eval.args[k])}
    IN  (eval.fn \in {"add", "sub", "mul", "div", "neg"} /\ errors # {}) =>
            /\ eval.out.res = "Ok"
            /\ \E k \in errors : eval.out.val = eval.args[k]

\* C12: dividing a Num by an operand that coerces to 0.0 returns the value
\* Error(Div), never a number.
DivisionByZeroIsError ==
    LET divisor == AsNum(eval.args[2])
    IN  (/\ eval.fn = "div"
         /\ IsNum(eval.args[1])
         /\ divisor.res = "Ok"
         /\ divisor.val.num = Fin(0, 1)) =>
            eval.out = Ok(ErrorOf("Div"))

\* C13: as_num returns a number exactly for Num, Bool, Text that holds a
\* decimal number and a 1x1 Array2 of one of these; for every other value
\* it fails and returns no number.
AsNumAcceptsExactly ==
    LET Scalar(v) == IsNum(v) \/ IsBool(v) \/ (IsText(v) /\ ParseF64(v.text) # <<>>)
        v == eval.args[1]
    IN  eval.fn = "as_num" =>
            (eval.out.res = "Ok" <=>
                \/ Scalar(v)
                \/ v.tag = "Array2" /\ Len(v.elems) = 1 /\ v.cols = 1 /\ Scalar(v.elems[1]))

\* C14: two values among Bool, Text, Num and Date compare by the rank
\* Bool < Text < Num < Date and, within one variant, by the comparison of
\* that variant (false < true, lexicographic, numeric with no order for a
\* NaN, calendar); comparing (a, b) gives the reverse of comparing (b, a).
ComparesByRankThenType ==
    LET a == eval.args[1]
        b == eval.args[2]
        Ranked == {"Bool", "Text", "Num", "Date"}
        RankOf(tag) == CASE tag = "Bool" -> 1 [] tag = "Text" -> 2
                         [] tag = "Num" -> 3 [] tag = "Date" -> 4
        SameType == CASE a.tag = "Bool" -> IF a.flag = b.flag THEN "Equal"
                                           ELSE IF b.flag THEN "Less" ELSE "Greater"
                      [] a.tag = "Text" -> TextCmp(a.text, b.text)
                      [] a.tag = "Num"  -> FCmp(a.num, b.num)
                      [] a.tag = "Date" -> ICmp(a.day, b.day)
        Reversed(ord) == CASE ord = "Less" -> "Greater" [] ord = "Greater" -> "Less"
                           [] OTHER -> ord
    IN  (eval.fn = "partial_cmp" /\ a.tag \in Ranked /\ b.tag \in Ranked) =>
            /\ eval.out.res = "Ok"
            /\ eval.out.ord = IF a.tag # b.tag THEN ICmp(RankOf(a.tag), RankOf(b.tag))
                              ELSE SameType
            /\ eval.out.ord = Reversed(PartialCmp(b, a).ord)

\* The text "abc" was compared with the number -2 and found less.
TextComparedWithNum ==
    /\ eval.fn = "partial_cmp"
    /\ eval.args = <<Text(Tabc), NumOf(-2)>>
    /\ eval.out.ord = "Less"

(***************************************************************************)
(* Properties of the function library                                      *)
(***************************************************************************)
\* C15: IFERROR(v, x) returns x when v is an error of any kind and v
\* itself when v is not an error.
IferrorSelects ==
    (eval.lib = "function/mod.rs" /\ eval.fn = "IFERROR" /\ Len(eval.args) = 2) =>
        eval.out = Ok(IF eval.args[1].tag = "Error" THEN eval.args[2] ELSE eval.args[1])

\* IFERROR(Error(Div), 1) returned 1.
IferrorReplacedError ==
    /\ eval.lib = "function/mod.rs"
    /\ eval.fn = "IFERROR"
    /\ eval.args = <<ErrorOf("Div"), NumOf(1)>>
    /\ eval.out = Ok(NumOf(1))

\* C16: looking up a name that is not a supported function returns the
\* error UnsupportedFunction(name) for any argument list, in each of the
\* two get_function_value: it neither aborts nor returns a value.
UnsupportedNameIsError ==
    (eval.lib \in {"function/mod.rs", "function.rs"} /\ eval.fn \in FunctionNames \ (Supported \cup {"INDEX", "OFFSET"})) =>
        eval.out = FunctionNotSupport(eval.fn)

\* C17: SUM of arguments whose scalars coerce to numbers returns the sum of
\* the scalars as numbers plus the Num elements of its 1-D and 2-D arrays;
\* SUM({1,2;3,4}) = 10, SUM({1,2,3,4,5},6,"7") = 28, SUM({1,"2",TRUE,4}) = 5.
SumAddsScalarsAndArrayNums ==
    LET IsArr(v) == v.tag = "Array" \/ v.tag = "Array2"
        RECURSIVE NumsOf(_)
        NumsOf(vs) == IF vs = <<>> THEN Fin(0, 1)
                      ELSE FAdd(IF IsNum(Head(vs)) THEN Head(vs).num ELSE Fin(0, 1),
                                NumsOf(Tail(vs)))
        RECURSIVE Total(_)
        Total(vs) == IF vs = <<>> THEN Fin(0, 1)
                     ELSE FAdd(IF IsArr(Head(vs)) THEN NumsOf(Head(vs).elems)
                               ELSE AsNum(Head(vs)).val.num,
                               Total(Tail(vs)))
    IN  (eval.lib \in {"function/mod.rs", "function.rs"} /\ eval.fn = "SUM") =>
            /\ (\A k \in 1..Len(eval.args) :
                    IsArr(eval.args[k]) \/ AsNum(eval.args[k]).res = "Ok") =>
                        eval.out = Ok(Num(Total(eval.args)))
            /\ eval.args = SumExamples[1] => eval.out = Ok(NumOf(10))
            /\ eval.args = SumExamples[2] => eval.out = Ok(NumOf(28))
            /\ eval.args = SumExamples[3] => eval.out = Ok(NumOf(5))

\* SUM({1,"2",TRUE,4}) returned 5.
SumOfMixedArray ==
    /\ eval.lib = "function/mod.rs"
    /\ eval.fn = "SUM"
    /\ eval.args = <<Mixed>>
    /\ eval.out = Ok(NumOf(5))

\* C18: AVERAGE of one 2-D array is AVERAGE of the 1-D array of the same
\* elements in order, the average of its Num elements;
\* AVERAGE({1,2;3,4}) = 2.5.
AverageOfArray2 ==
    (eval.lib \in {"function/mod.rs", "function.rs"} /\ eval.fn = "AVERAGE"
         /\ Len(eval.args) = 1 /\ eval.args[1].tag = "Array2") =>
        /\ eval.out = Average(<<ArrayOf(eval.args[1].elems)>>)
        /\ eval.args = <<Square>> => eval.out = Ok(Num(Fin(5, 2)))

\* C19: parse_criteria(c, cell) on a text cell takes as comparator the one
\* of <>, <=, <, >=, >, = that c starts with (= when it starts with
\* none) and as literal the whole rest of c, and returns the comparison of
\* the literal (left) with the text of the cell (right).
ParsesLeadingComparator ==
    LET c       == eval.args[1].text
        leading == {k \in 1..Len(Comparators) :
                        /\ Len(c) >= Len(Comparators[k])
                        /\ SubSeq(c, 1, Len(Comparators[k])) = Comparators[k]}
        op      == IF leading = {} THEN <<>> ELSE Comparators[First(leading)]
        literal == SubSeq(c, Len(op) + 1, Len(c))
    IN  (eval.fn = "parse_criteria" /\ IsText(eval.args[2])) =>
            eval.out = Ok(Bool(EvaluateComparison(IF op = <<>> THEN <<61>> ELSE op,
                                                  RemoveQuotes(literal),
                                                  RemoveQuotes(eval.args[2].text))))

\* C20: SUMIFS, COUNTIFS and AVERAGEIFS over ranges of text cells select
\* the positions at which every (criteria_range, criterion) pair holds;
\* SUMIFS returns the sum, COUNTIFS the count and AVERAGEIFS (of a selection
\* that is not empty) the average of the selected positions.
IfsSelectConjunction ==
    LET ranged   == eval.fn \in {"SUMIFS", "AVERAGEIFS"}
        pairs    == IF ranged THEN Tail(eval.args) ELSE eval.args
        WellFormed ==
            /\ pairs # <<>>
            /\ Len(pairs) % 2 = 0
            /\ ranged => eval.args[1] = Amounts
            /\ \A k \in 1..Len(pairs) :
                   IF k % 2 = 1 THEN pairs[k] \in CriteriaRanges ELSE pairs[k] \in Criteria
        Holds(p, i) == ParseCriteria(pairs[2 * p].text, pairs[2 * p - 1].elems[i]).val.flag
        selected == SelectSeq(Positions(Len(Amounts.elems)),
                              LAMBDA i : \A p \in 1..(Len(pairs) \div 2) : Holds(p, i))
        total    == FSum([k \in 1..Len(selected) |-> Amounts.elems[selected[k]].num])
    IN  (/\ eval.lib = "function/mod.rs"
         /\ eval.fn \in {"SUMIFS", "COUNTIFS", "AVERAGEIFS"}
         /\ eval.args # <<>>
         /\ WellFormed) =>
            CASE eval.fn = "SUMIFS"     -> eval.out = Ok(Num(total))
              [] eval.fn = "COUNTIFS"   -> eval.out = Ok(NumOf(Len(selected)))
              [] eval.fn = "AVERAGEIFS" ->
                    selected # <<>> =>
                        eval.out = Ok(Num(FDiv(total, Fin(Len(selected), 1))))

\* C21: DATEDIF of two dates and a unit among Y, M, D, MD, YM, YD spelled
\* in any mix of upper and lower case returns the number it returns for the
\* upper-case unit and does not fail.
DatedifUnitsAnyCase ==
    LET Upper(t) == [k \in 1..Len(t) |-> IF 97 <= t[k] /\ t[k] <= 122 THEN t[k] - 32 ELSE t[k]]
        Units == {<<89>>, <<77>>, <<68>>, <<77, 68>>, <<89, 77>>, <<89, 68>>}
    IN  (/\ eval.lib = "function/mod.rs"
         /\ eval.fn = "DATEDIF"
         /\ Len(eval.args) = 3
         /\ IsDate(eval.args[1]) /\ IsDate(eval.args[2]) /\ IsText(eval.args[3])
         /\ Upper(eval.args[3].text) \in Units) =>
            /\ eval.out.res = "Ok"
            /\ eval.out = Datedif(eval.args[1], eval.args[2], Text(Upper(eval.args[3].text)))

\* C24: get_function_value("SUMIF", [range, criteria]) and
\* ("SUMIF", [range, criteria, sum_range]) return the sum of the elements
\* of sum_range (of range when sum_range is omitted) at the positions where
\* the element of range satisfies criteria, which is what sumif returns.
SumifDispatched ==
    LET range    == eval.args[1]
        criteria == eval.args[2]
        summed   == IF Len(eval.args) = 3 THEN eval.args[3] ELSE range
        Holds(i) == ParseCriteria(criteria.text, range.elems[i])
        Valid ==
            /\ range.tag = "Array" /\ IsText(criteria) /\ summed.tag = "Array"
            /\ Len(summed.elems) = Len(range.elems)
            /\ \A i \in 1..Len(range.elems) :
                   /\ Holds(i).res = "Ok"
                   /\ Holds(i).val.flag => AsNum(summed.elems[i]).res = "Ok"
        selected == SelectSeq(Positions(Len(range.elems)), LAMBDA i : Holds(i).val.flag)
        total    == FSum([k \in 1..Len(selected) |-> AsNum(summed.elems[selected[k]]).val.num])
    IN  (/\ eval.lib = "function/mod.rs"
         /\ eval.fn = "SUMIF"
         /\ Len(eval.args) \in {2, 3}
         /\ Valid) =>
            /\ Sumif(range, criteria.text, SubSeq(eval.args, 3, Len(eval.args))) = Ok(Num(total))
            /\ eval.out = Ok(Num(total))

\* C25: for match_type -1, 0, 1, a lookup number and an array of numbers
\* in any order, a non-error result i of MATCH is a position of the array
\* as passed whose element is >= (for -1), = (for 0), <= (for 1) the lookup
\* value, and is the smallest such element, the first such position, the
\* largest such element respectively; when no element stands in the
\* relation the result is Error(NA).
MatchGivesPositionInArray ==
    LET v   == eval.args[1].num
        arr == eval.args[2].elems
        t   == eval.args[3].num
        Rel(x) == CASE t = Fin(-1, 1) -> FCmp(x, v) \in {"Greater", "Equal"}
                    [] t = Fin(0, 1)  -> FCmp(x, v) = "Equal"
                    [] t = Fin(1, 1)  -> FCmp(x, v) \in {"Less", "Equal"}
        related == {i \in 1..Len(arr) : Rel(arr[i].num)}
        Best(i) == CASE t = Fin(-1, 1) ->
                          \A j \in related : FCmp(arr[i].num, arr[j].num) \in {"Less", "Equal"}
                     [] t = Fin(0, 1)  -> \A j \in related : i <= j
                     [] t = Fin(1, 1)  ->
                          \A j \in related : FCmp(arr[i].num, arr[j].num) \in {"Greater", "Equal"}
    IN  (/\ eval.lib = "function/mod.rs"
         /\ eval.fn = "MATCH"
         /\ Len(eval.args) = 3
         /\ IsNum(eval.args[1]) /\ IsNum(eval.args[3])
         /\ eval.args[2].tag = "Array"
         /\ \A i \in 1..Len(arr) : IsNum(arr[i])
         /\ t \in {Fin(-1, 1), Fin(0, 1), Fin(1, 1)}) =>
            /\ eval.out.res = "Ok"
            /\ related = {} => eval.out.val = ErrorOf("NA")
            /\ ~IsErr(eval.out.val) =>
                   \E i \in related : eval.out.val = NumOf(i) /\ Best(i)

(***************************************************************************)
(* Properties of the functions that compute references                     *)
(***************************************************************************)
\* C26: INDEX over a range with row 0 returns, without failing, a reference
\* to the whole selected column of the range, and with column 0 to the
\* whole selected row; with row and column >= 1 it returns a Range whose
\* reference is the cell (start_row + row - 1, start_col + col - 1) and
\* whose cached value is the element [row - 1, col - 1]; an argument that
\* is an error is returned, the array first, then the row, then the column.
IndexSelects ==
    LET array == eval.args[1]
        row   == eval.args[2]
        col   == IF Len(eval.args) = 3 THEN eval.args[3] ELSE NumOf(1)
        dim   == GetDimensions(array.reference)
        r     == row.num.n
        c     == col.num.n
        cells == array.value[1]
    IN  (eval.fn = "INDEX" /\ Len(eval.args) \in {2, 3}) =>
            /\ IsErr(array) => eval.out = Ok(array)
            /\ (~IsErr(array) /\ IsErr(row)) => eval.out = Ok(row)
            /\ (~IsErr(array) /\ ~IsErr(row) /\ IsErr(col)) => eval.out = Ok(col)
            /\ (array = Table /\ IsNum(row) /\ IsNum(col)) =>
                   /\ (r = 0 /\ c >= 1) =>
                          /\ eval.out.res = "Ok"
                          /\ eval.out.val.tag = "Range"
                          /\ GetDimensions(eval.out.val.reference)
                                = <<dim[1], dim[2] + c - 1, dim[3], 1>>
                   /\ (c = 0 /\ r >= 1) =>
                          /\ eval.out.res = "Ok"
                          /\ eval.out.val.tag = "Range"
                          /\ GetDimensions(eval.out.val.reference)
                                = <<dim[1] + r - 1, dim[2], 1, dim[4]>>
                   /\ (r >= 1 /\ c >= 1) =>
                          eval.out = Ok(RangeOf(array.sheet,
                                                RefCell(dim[1] + r - 1, dim[2] + c - 1),
                                                <<cells.elems[(r - 1) * cells.cols + c]>>))

\* C27: the reference offset_reference returns has its start cell at or
\* before its end cell in both coordinates, for every shift, height and
\* width.
OffsetReferenceNormalized ==
    (eval.fn = "offset_reference" /\ eval.out.res = "Ok") =>
        /\ eval.out.val.row <= eval.out.val.erow
        /\ eval.out.val.col <= eval.out.val.ecol

\* C30: offset_reference(r, rows, cols, height, width) rejects a shift to
\* a negative row or column; otherwise it returns a region of |height| rows
\* and |width| columns, an omitted height or width counting as 1, that
\* starts at r's start shifted by (rows, cols) when height and width are
\* not negative.
OffsetReferenceExtent ==
    LET r      == eval.args[1].reference
        row    == r.row + eval.args[2].num.n
        col    == r.col + eval.args[3].num.n
        height == IF IsNum(eval.args[4]) THEN eval.args[4].num.n ELSE 1
        width  == IF IsNum(eval.args[5]) THEN eval.args[5].num.n ELSE 1
        dim    == GetDimensions(eval.out.val)
    IN  eval.fn = "offset_reference" =>
            IF row < 0 \/ col < 0 THEN eval.out.res # "Ok"
            ELSE /\ eval.out.res = "Ok"
                 /\ dim[3] = Abs(height)
                 /\ dim[4] = Abs(width)
                 /\ (height >= 1 /\ width >= 1) => (dim[1] = row /\ dim[2] = col)

OffsetSignalsUncalculated ==
    [][(eval' # eval /\ eval'.fn = "OFFSET") =>
          LET array == eval'.args[1]
              out   == eval'.out
              row   == array.reference.row + eval'.args[2].num.n
              target == RefCell(row, 0)
              held  == IF row < Len(book.values) THEN book.values[row + 1] ELSE Empty
          IN  /\ (array.tag = "Range" /\ row >= 0) =>
                    IF held.tag = "Formula"
                    THEN /\ out.res = "Volatile"
                         /\ out.val.type = "Reference"
                         /\ out.val.sheet = array.sheet
                         /\ out.val.reference = target
                    ELSE /\ out.res = "Ok"
                         /\ out.val.tag = "Range"
                         /\ out.val.sheet = array.sheet
                         /\ out.val.reference = target
                         /\ out.val.value = <<held>>
              /\ IsErr(array) => out = Ok(array)]_vars

\* C23 witness: a cell whose OFFSET raised Volatile for a target on Sheet1
\* was replanned, and its OFFSET then returned the Range of the target
\* with the target's number.
OffsetResolvedAfterReplan ==
    /\ eval.fn = "OFFSET"
    /\ eval.out.res = "Ok"
    /\ eval.out.val.tag = "Range"
    /\ eval.out.val.sheet = <<"Sheet1">>
    /\ eval.out.val.value # <<>>
    /\ IsNum(eval.out.val.value[1])
    /\ \E k \in 1..Len(book.cells) :
          /\ book.signals[k] = 1
          /\ book.replans[k] = 1
          /\ book.cells[k].kind = "offset"
          /\ eval.args[1].reference.row = book.cells[k].base
          /\ book.values[k] = eval.out.val.value[1]

====
